---- MODULE Spec2Model ----
(***************************************************************************)
(* Model of the pixiserve asynchronous media-intelligence pipeline:        *)
(*   - the Celery task graph built by process_asset (ml_pipeline.py),      *)
(*   - the reverse_geocode task and its process-wide cache (geocoding.py), *)
(*   - the visual-intelligence group (object_scene.py),                    *)
(*   - the Face/Person graph mutated by cluster_faces, the two             *)
(*     merge_people entry points and delete_person (face_processing.py,    *)
(*     api/v1/people.py).                                                  *)
(* Database transactions are modelled at READ COMMITTED granularity: each  *)
(* SELECT is one step that reads the committed rows into the session, and  *)
(* the final session.commit() writes the values computed from what the     *)
(* session read.                                                           *)
(***************************************************************************)
EXTENDS Integers, Sequences, FiniteSets, TLC

(***************************************************************************)
(* Bounds of the model.                                                    *)
(***************************************************************************)
MaxSubmissions == 2
MaxSessions == 2
MaxPeople == 3
MaxFaceCount == 6
MaxRequests == 2
MaxUploads == 2
MaxClock == 2
MaxDetections == 3

(***************************************************************************)
(* Program constants.                                                      *)
(***************************************************************************)
max_retries == 3
chord_size == 2
min_faces == 2
min_samples == 2
eps == 500
GeoPrecision == 10
bucket_capacity == 1
face_nms_threshold == 40
object_nms_threshold == 45

(***************************************************************************)
(* Fixed inputs: the users, the uploaded files and what the external       *)
(* collaborators (EXIF readers, face detector, geocoder) return for them.  *)
(***************************************************************************)
Owners == {"o1", "o2"}
Assets == {"a1", "a2", "a3", "v1"}
NoAsset == "none"

\* A further photograph, taken on the equator; it only goes through the
\* asset pipeline.
EquatorAssets == {"e1"}

\* A photograph taken at sea, where the geocoder knows no address.
SeaAssets == {"s1"}
Library == Assets \cup EquatorAssets \cup SeaAssets

\* The files that go through the asset pipeline: an image with a GPS
\* position, an image without, and a video.
Uploads == {"a1", "a2", "v1"}

asset_owner(a) == IF a = "a3" THEN "o2" ELSE "o1"
asset_type(a) == IF a = "v1" THEN "video" ELSE "image"

\* Optional values (Python None / SQL NULL) are sequences of length <= 1.
None == <<>>
Some(v) == <<v>>
\* Python truthiness of an optional number: None and 0 are falsy.
Truthy(opt) == opt # None /\ opt[1] # 0

\* What detect_faces / get_face_embeddings_batch return for the image: one
\* embedding per detected face.  An embedding is a unit vector, given by its
\* direction in steps of 45 degrees.
DetectedFaces(a) ==
  IF a = "a1" THEN <<Some(0), Some(1)>>
  ELSE IF a = "a2" THEN <<Some(4), Some(4)>>
  ELSE IF a = "a3" THEN <<Some(0)>>
  ELSE <<>>

\* Coordinates are in units of 1e-4 degree.  a1 carries the EXIF GPS
\* position (48.8566, 2.3522), a3 was taken some 50 m away, at
\* (48.8570, 2.3518), e1 on the equator at (0.0, 2.3522), s1 in the Atlantic
\* at (10.0, -30.0); the other files carry no position.
ExifMetadata(a) ==
  IF a = "a1"
    THEN [latitude |-> Some(488566), longitude |-> Some(23522)]
  ELSE IF a = "a3"
    THEN [latitude |-> Some(488570), longitude |-> Some(23518)]
  ELSE IF a = "e1"
    THEN [latitude |-> Some(0), longitude |-> Some(23522)]
  ELSE IF a = "s1"
    THEN [latitude |-> Some(100000), longitude |-> Some(-300000)]
  ELSE [latitude |-> None, longitude |-> None]

\* Python round(x, 3): nearest multiple of 1e-3 degree, ties to even.
RoundHalfEven(x, m) ==
  LET q == x \div m
      r == x % m
  IN  IF 2 * r < m THEN q
      ELSE IF 2 * r > m THEN q + 1
      ELSE IF q % 2 = 0 THEN q ELSE q + 1

round_coords(lat, lon) ==
  <<RoundHalfEven(lat, GeoPrecision), RoundHalfEven(lon, GeoPrecision)>>

NoLocation == [city |-> "NULL", state |-> "NULL", country |-> "NULL"]

\* The answer of the external reverse geocoder for a position.
geocode_with_nominatim(lat, lon) ==
  IF <<lat, lon>> = <<488566, 23522>>
    THEN [city |-> "Paris", state |-> "Ile-de-France", country |-> "France"]
  ELSE IF <<lat, lon>> = <<488570, 23518>>
    THEN [city |-> "Paris 4e", state |-> "Ile-de-France", country |-> "France"]
  ELSE NoLocation

Workflows == 1 .. MaxSubmissions
Groups == 1 .. MaxSubmissions
ImageStages == {"extract_exif", "generate_thumbnails",
                "process_extraction_results", "update_asset_metadata"}
VideoStages == {"extract_video_metadata", "generate_video_thumbnail",
                "update_asset_metadata"}
Stages == ImageStages \cup VideoStages
Status == {"none", "queued", "running", "success", "failure"}

NoCombined == [exif |-> [latitude |-> None, longitude |-> None],
               thumbnails |-> FALSE, geocoding |-> None, geocoding_queued |-> FALSE]

MlStages == {"detect_and_encode_faces", "detect_objects_task", "classify_scene_task"}
NoGroup == [asset |-> NoAsset,
            stage |-> [s \in MlStages |-> "none"]]

\* What detect_objects returns for the image: the class name of every
\* surviving detection (a1 shows two dogs).
DetectedObjects(a) ==
  IF a = "a1" THEN <<"dog", "dog">>
  ELSE IF a = "a2" THEN <<"cat">>
  ELSE <<>>

\* What classify_scene returns, confidence >= 0.1: distinct scene names.
ClassifiedScenes(a) ==
  IF a = "a1" THEN <<"beach">>
  ELSE IF a = "a2" THEN <<"beach", "park">>
  ELSE <<>>

\* The files clients upload: content type, content hash and length.
Files == {"f1", "f2", "f3"}
content_type(f) ==
  IF f = "f1" THEN "image/jpeg" ELSE IF f = "f2" THEN "video/mp4" ELSE "text/plain"
compute_sha256(f) == IF f = "f1" THEN "h1" ELSE IF f = "f2" THEN "h2" ELSE "h3"
content_length(f) == IF f = "f1" THEN 2 ELSE IF f = "f2" THEN 3 ELSE 1

ALLOWED_IMAGE_TYPES ==
  {"image/jpeg", "image/png", "image/gif", "image/webp", "image/heic",
   "image/heif", "image/avif", "image/tiff", "image/bmp"}
ALLOWED_VIDEO_TYPES ==
  {"video/mp4", "video/quicktime", "video/x-msvideo", "video/x-matroska",
   "video/webm", "video/mpeg"}
ALLOWED_TYPES == ALLOWED_IMAGE_TYPES \cup ALLOWED_VIDEO_TYPES

get_asset_type(mime_type) ==
  IF mime_type \in ALLOWED_IMAGE_TYPES THEN "image"
  ELSE IF mime_type \in ALLOWED_VIDEO_TYPES THEN "video"
  ELSE "unknown"

VARIABLES
  wfAsset,        \* workflow -> asset it was submitted for (NoAsset: unused)
  st,             \* workflow -> stage -> Celery task state
  retries,        \* workflow -> stage -> times the task was re-queued by autoretry
  chord_count,    \* workflow -> header tasks of the chord that have returned
  combined,       \* workflow -> dict returned by process_extraction_results
  geo,            \* workflow -> state of the reverse_geocode task it queued
  geocode_cache,  \* worker -> the entries of the _geocode_cache of its process
  assets,         \* asset -> columns of the Asset row the pipeline writes
  ml,             \* group -> the visual-intelligence group queued for an asset
  faces,          \* face id -> Face row
  people,         \* person id -> Person row
  clusterQ,       \* owner -> queued cluster_faces messages
  next_person_id, \* number of Person rows inserted so far, plus one
  requests,       \* merge and delete requests accepted so far
  sess,           \* session -> the database session of a running operation
  cluster_result, \* session -> how its last cluster_faces run ended
  stage_retries,  \* group -> stage -> self.request.retries of the visual stage
  asset_tags,     \* the AssetTag rows, as <<asset, tag>> pairs
  tags,           \* the Tag rows: <<name, type>> -> usage_count
  tag_read,       \* group -> stage -> usage counts the running stage has loaded
  records,        \* asset id -> Asset row inserted by create_asset
  storage_writes, \* number of storage.write calls so far
  storage_used_bytes, \* user -> User.storage_used_bytes
  enqueued,       \* asset ids passed to process_asset.delay, in order
  up,             \* session -> the upload request it is serving
  now,            \* the time, in seconds
  bucket,         \* worker -> tokens in its rate-limit bucket for reverse_geocode
  geocoder_calls, \* second -> external geocoder calls issued in that second
  available,      \* the models whose file can be fetched and loaded
  model_sessions, \* model name -> session held by _model_sessions (0: none)
  loads,          \* model name -> InferenceSession objects constructed so far
  call,           \* thread -> the get_model_session call it is in
  given,          \* <<model name, session>> pairs returned to callers so far
  stage_worker,   \* group -> stage -> worker process that is executing the task
  thumb_files,    \* asset -> derivative files written for the asset so far
  thumb_runs,     \* asset -> thumbnail generations completed for the asset
  nms_in,         \* the detections parsed from the model output
  nms_out         \* what _apply_nms returned for them

pipeVars == <<wfAsset, st, retries, chord_count, combined, geo, geocode_cache, assets>>
tagVars == <<stage_retries, asset_tags, tags, tag_read>>
ingestVars == <<records, storage_writes, storage_used_bytes, enqueued, up>>
rateVars == <<now, bucket, geocoder_calls>>
modelVars == <<available, model_sessions, loads, call, given>>
laneVars == <<stage_worker>>
thumbVars == <<thumb_files, thumb_runs>>
nmsVars == <<nms_in, nms_out>>
vars == <<wfAsset, st, retries, chord_count, combined, geo, geocode_cache, assets,
          ml, faces, people, clusterQ, next_person_id, requests, sess,
          stage_retries, asset_tags, tags, tag_read,
          records, storage_writes, storage_used_bytes, enqueued, up,
          now, bucket, geocoder_calls,
          available, model_sessions, loads, call, given, stage_worker,
          thumb_files, thumb_runs, nms_in, nms_out, cluster_result>>

Sessions == 1 .. MaxSessions
\* The keys of MODELS, and the threads of a worker process that call
\* get_model_session.
ModelNames == {"retinaface", "arcface", "yolov8n", "places365"}
Threads == 1 .. MaxSessions
NoSession == 0
\* The processes that execute the tasks of the ML lane; process p works on
\* the database session p.
MlWorkers == Sessions
NoWorker == 0
IdleCall == [pc |-> "idle", model |-> "none"]
\* The Celery worker instances; each is a process with its own module
\* globals and its own rate-limit buckets.
WorkerNodes == {"n1", "n2"}
PersonIds == 1 .. MaxPeople
NULL == 0

\* A database session: the operation using it, where that operation stands,
\* and the rows and column values it has loaded.
IdleSession == [op |-> "idle", pc |-> "idle", owner |-> "none",
                keep |-> NULL, merge |-> NULL,
                keep_count |-> 0, merge_count |-> 0, merge_into |-> NULL,
                rows |-> {}]

\* Task graphs submitted so far (asset pipelines and intelligence groups).
Submitted ==
  Cardinality({w \in Workflows : wfAsset[w] # NoAsset})
    + Cardinality({g \in Groups : ml[g].asset # NoAsset})

\* An upload request: where the handler stands, who sent which file, and
\* the response once the handler has returned.
NoResponse == [status |-> "none", asset |-> NULL, is_duplicate |-> FALSE]
IdleUpload == [pc |-> "idle", user |-> "none", file |-> "none",
               used |-> 0, response |-> NoResponse]

\* A reverse_geocode task: its Celery state, self.request.retries, and the
\* location and "cached" entries of the dict it returned.
NoGeo == [status |-> "none", node |-> "none", retries |-> 0,
          result |-> NoLocation, cached |-> FALSE]

NewAssetRow == [latitude |-> None, longitude |-> None,
                city |-> "NULL", country |-> "NULL",
                thumb_path |-> FALSE, ml_processed_at |-> FALSE]

\* The Tag rows that go with AssetTag rows: one per tag, counting its rows.
tags_of(rows) ==
  [t \in {r[2] : r \in rows} |-> Cardinality({r \in rows : r[2] = t})]

\* A running stage that has loaded no Tag row.
NoRead == [t \in {} |-> 0]

\* The state of a deployment in which the models av can be loaded and the
\* AssetTag rows tagged exist.
InitTagged(av, tagged_rows) ==
  /\ wfAsset = [w \in Workflows |-> NoAsset]
  /\ st = [w \in Workflows |-> [s \in Stages |-> "none"]]
  /\ retries = [w \in Workflows |-> [s \in Stages |-> 0]]
  /\ chord_count = [w \in Workflows |-> 0]
  /\ combined = [w \in Workflows |-> NoCombined]
  /\ geo = [w \in Workflows |-> NoGeo]
  /\ geocode_cache = [n \in WorkerNodes |-> {}]
  /\ assets = [a \in Library |-> NewAssetRow]
  /\ ml = [g \in Groups |-> NoGroup]
  /\ faces = <<>>
  /\ people = <<>>
  /\ clusterQ = [o \in Owners |-> 0]
  /\ next_person_id = 1
  /\ requests = 0
  /\ sess = [x \in Sessions |-> IdleSession]
  /\ cluster_result = [x \in Sessions |-> "none"]
  /\ stage_retries = [g \in Groups |-> [s \in MlStages |-> 0]]
  /\ asset_tags = tagged_rows
  /\ tags = tags_of(tagged_rows)
  /\ tag_read = [g \in Groups |-> [s \in MlStages |-> NoRead]]
  /\ records = <<>>
  /\ storage_writes = 0
  /\ storage_used_bytes = [u \in Owners |-> 0]
  /\ enqueued = <<>>
  /\ up = [x \in Sessions |-> IdleUpload]
  /\ now = 0
  /\ bucket = [n \in WorkerNodes |-> bucket_capacity]
  /\ geocoder_calls = [t \in 0 .. MaxClock |-> 0]
  /\ available = av
  /\ model_sessions = [m \in ModelNames |-> NoSession]
  /\ loads = [m \in ModelNames |-> 0]
  /\ call = [c \in Threads |-> IdleCall]
  /\ given = {}
  /\ stage_worker = [g \in Groups |-> [s \in MlStages |-> NoWorker]]
  /\ thumb_files = [a \in Library |-> {}]
  /\ thumb_runs = [a \in Library |-> 0]
  /\ nms_in = <<>>
  /\ nms_out = [by |-> "none", boxes |-> <<>>]

\* The state of a fresh deployment in which the models av can be loaded.
InitState(av) == InitTagged(av, {})

\* Every model file is in place or can be downloaded.
Init == InitState(ModelNames)

\* A library in which a photograph (a3) already carries the scene tag beach.
TagInit == InitTagged(ModelNames, {<<"a3", <<"beach", "scene">>>>})

\* Some model files are missing and cannot be downloaded.
DegradedInit == \E av \in SUBSET ModelNames : InitState(av)

(***************************************************************************)
(* Celery plumbing.                                                        *)
(***************************************************************************)
\* A worker takes a queued task message and begins executing the task.
StartTask(w, s) ==
  /\ st[w][s] = "queued"
  /\ st' = [st EXCEPT ![w][s] = "running"]
  /\ UNCHANGED <<ml, faces, people, clusterQ, next_person_id, requests, sess, wfAsset, retries, chord_count, combined, geo, geocode_cache, assets, tagVars, ingestVars, rateVars, modelVars, laneVars, thumbVars, nmsVars, cluster_result>>

\* Any-of join: the body is applied as soon as one header task returned.
chord_any(count) == count >= 1

\* chain(group(a, b), body) is a chord: body is applied once the number of
\* header tasks that returned equals the size of the header.
chord_ready(count) == count = chord_size

\* autoretry_for=(Exception,), retry_kwargs={"max_retries": 3}
may_retry(n) == n < max_retries

\* The tasks of the two graphs that are declared with
\* autoretry_for=(Exception,) and retry_kwargs={"max_retries": 3}; the
\* others are plain @shared_task: an exception ends them at once.
autoretry(s) == s \in {"extract_exif", "generate_thumbnails"}

\* A header task that failed for good is treated as returned: the body of
\* the chord is applied all the same.
chord_ignores_failure(w, s) ==
  IF autoretry(s) /\ may_retry(retries[w][s])
    THEN /\ st' = [st EXCEPT ![w][s] = "queued"]
         /\ retries' = [retries EXCEPT ![w][s] = @ + 1]
    ELSE /\ st' = [st EXCEPT ![w][s] = "failure",
                             ![w]["process_extraction_results"] = "queued"]
         /\ UNCHANGED retries

\* The task body raised: the message is re-queued while the policy allows,
\* else the task is marked failed (and the rest of its chain or chord is
\* not applied).
task_raises(w, s) ==
  IF autoretry(s) /\ may_retry(retries[w][s])
    THEN /\ st' = [st EXCEPT ![w][s] = "queued"]
         /\ retries' = [retries EXCEPT ![w][s] = @ + 1]
    ELSE /\ st' = [st EXCEPT ![w][s] = "failure"]
         /\ UNCHANGED retries

\* State of the chord body after one more header task has returned.
on_chord_part_return(w) ==
  IF chord_ready(chord_count[w] + 1) THEN "queued" ELSE "none"

(***************************************************************************)
(* process_asset: builds the task graph of one submission and queues its   *)
(* first tasks.  Called by upload_asset and by reprocess_asset.            *)
(***************************************************************************)
process_asset(a) ==
  \E w \in Workflows :
    /\ Submitted < MaxSubmissions
    /\ wfAsset[w] = NoAsset
    /\ \A v \in Workflows : v < w => wfAsset[v] # NoAsset
    /\ wfAsset' = [wfAsset EXCEPT ![w] = a]
    /\ st' = [st EXCEPT ![w] =
                IF asset_type(a) = "video"
                  THEN [@ EXCEPT !["extract_video_metadata"] = "queued"]
                  ELSE [@ EXCEPT !["extract_exif"] = "queued",
                                 !["generate_thumbnails"] = "queued"]]
    /\ UNCHANGED <<ml, faces, people, clusterQ, next_person_id, requests, sess, retries, chord_count, combined, geo, geocode_cache, assets, tagVars, ingestVars, rateVars, modelVars, laneVars, thumbVars, nmsVars, cluster_result>>

\* What the two EXIF readers do with the file: _extract_with_exifread
\* returns tags with the image dimensions ("data"), tags without them
\* ("partial"), an empty dict ("empty") or raises; _extract_with_pillow
\* returns a dict with width and height ("data") or raises.  a1 and a3 are
\* photographs with a full EXIF block, e1 has GPS tags but no
\* ExifImageWidth / ExifImageLength, a2 is a file neither reader can open.
exifread_outcome(a) ==
  IF a \in {"a1", "a3", "s1"} THEN "data"
  ELSE IF a = "e1" THEN "partial"
  ELSE "raises"
pillow_outcome(a) == IF a = "a2" THEN "raises" ELSE "data"

\* The outer handler re-raises what the Pillow fallback raised.
extract_exif_reraising(r1, r2) ==
  IF r1 \in {"data", "partial"}
    THEN [raised |-> FALSE, metadata |-> "exifread", error |-> FALSE,
          has_size |-> r1 = "data"]
  ELSE IF r2 = "data"
    THEN [raised |-> FALSE, metadata |-> "pillow", error |-> FALSE, has_size |-> TRUE]
  ELSE [raised |-> TRUE, metadata |-> "empty", error |-> TRUE, has_size |-> FALSE]

\* The body of extract_exif: the exifread result if it is not empty,
\* whatever it holds; else (empty, or the inner handler caught the
\* exception) the Pillow result; else the outer handler stores the error
\* and returns the record with empty metadata.
extract_exif_result(r1, r2) ==
  IF r1 \in {"data", "partial"}
    THEN [raised |-> FALSE, metadata |-> "exifread", error |-> FALSE,
          has_size |-> r1 = "data"]
  ELSE IF r2 = "data"
    THEN [raised |-> FALSE, metadata |-> "pillow", error |-> FALSE, has_size |-> TRUE]
  ELSE [raised |-> FALSE, metadata |-> "empty", error |-> TRUE, has_size |-> FALSE]

\* extract_exif as a header task of the chord.
extract_exif(w) ==
  LET a == wfAsset[w]
      result == extract_exif_result(exifread_outcome(a), pillow_outcome(a))
  IN
  /\ st[w]["extract_exif"] = "running"
  /\ IF result.raised
       THEN /\ task_raises(w, "extract_exif")
            /\ UNCHANGED chord_count
       ELSE /\ st' = [st EXCEPT ![w]["extract_exif"] = "success",
                                ![w]["process_extraction_results"] = on_chord_part_return(w)]
            /\ chord_count' = [chord_count EXCEPT ![w] = @ + 1]
            /\ UNCHANGED retries
  /\ UNCHANGED <<ml, faces, people, clusterQ, next_person_id, requests, sess, wfAsset, combined, geo, geocode_cache, assets, tagVars, ingestVars, rateVars, modelVars, laneVars, thumbVars, nmsVars, cluster_result>>

\* Where a file lies: under settings.storage_path, or in the directory
\* of temporary files.
StorageRoot == "photos"
TempDir == "tmp"
TempNames == {"tmpA", "tmpB"}

\* The path the asset's original was stored under.
storage_path(a) == [dir |-> StorageRoot, stem |-> a]

THUMBNAIL_SIZES == {"tiny", "thumb", "preview"}

\* _get_thumbnail_path: <thumbnails>/<relative dir>/<stem>_<size>.webp for a
\* path under settings.storage_path; any other (absolute) path keeps its
\* own directory, since joining an absolute path discards the left part.
get_thumbnail_path(path, size_name) ==
  [dir |-> IF path.dir = StorageRoot THEN "thumbnails" ELSE path.dir,
   stem |-> path.stem,
   size |-> size_name]

\* The loop of generate_thumbnails over THUMBNAIL_SIZES: one file per size,
\* opened with "wb" (an existing file is overwritten).
write_thumbnails(a, path) ==
  /\ thumb_files' = [thumb_files EXCEPT ![a] =
                       @ \cup {get_thumbnail_path(path, s) : s \in THUMBNAIL_SIZES}]
  /\ thumb_runs' = [thumb_runs EXCEPT ![a] = @ + 1]

\* generate_thumbnails returns the derivative paths (the request, and with
\* it the retry counter, is gone once the task has returned) ...
generate_thumbnails(w) ==
  /\ st[w]["generate_thumbnails"] = "running"
  /\ st' = [st EXCEPT ![w]["generate_thumbnails"] = "success",
                      ![w]["process_extraction_results"] = on_chord_part_return(w)]
  /\ chord_count' = [chord_count EXCEPT ![w] = @ + 1]
  /\ retries' = [retries EXCEPT ![w]["generate_thumbnails"] = 0]
  /\ write_thumbnails(wfAsset[w], storage_path(wfAsset[w]))
  /\ UNCHANGED <<ml, faces, people, clusterQ, next_person_id, requests, sess, wfAsset, combined, geo, geocode_cache, assets, tagVars, ingestVars, rateVars, modelVars, laneVars, nmsVars, cluster_result>>

\* ... or re-raises (unreadable image, I/O error): the task is retried with
\* backoff up to max_retries times and then marked failed; the chord body
\* is not applied for a failed header.
generate_thumbnails_raise(w) ==
  /\ st[w]["generate_thumbnails"] = "running"
  /\ task_raises(w, "generate_thumbnails")
  /\ UNCHANGED <<ml, faces, people, clusterQ, next_person_id, requests, sess, wfAsset, chord_count, combined, geo, geocode_cache, assets, tagVars, ingestVars, rateVars, modelVars, laneVars, thumbVars, nmsVars, cluster_result>>

\* if exif.get("latitude") and exif.get("longitude")
gps_found(exif) == Truthy(exif.latitude) /\ Truthy(exif.longitude)

\* process_extraction_results: merges the results of the header, queues
\* reverse_geocode when GPS coordinates were found, and hands the combined
\* dict (whose "geocoding" entry stays None) to update_asset_metadata.
process_extraction_results(w) ==
  LET exif == ExifMetadata(wfAsset[w]) IN
  /\ st[w]["process_extraction_results"] = "running"
  /\ combined' = [combined EXCEPT ![w] =
                    [exif |-> exif, thumbnails |-> TRUE, geocoding |-> None,
                     geocoding_queued |-> gps_found(exif)]]
  /\ geo' = [geo EXCEPT ![w] = IF gps_found(exif)
                                 THEN [@ EXCEPT !.status = "queued"] ELSE @]
  /\ st' = [st EXCEPT ![w]["process_extraction_results"] = "success",
                      ![w]["update_asset_metadata"] = "queued"]
  /\ UNCHANGED <<ml, faces, people, clusterQ, next_person_id, requests, sess, wfAsset, retries, chord_count, geocode_cache, assets, tagVars, ingestVars, rateVars, modelVars, laneVars, thumbVars, nmsVars, cluster_result>>

\* The columns update_asset_metadata assigns before session.commit().
updated_row(row, results) ==
  [row EXCEPT
     !.latitude = IF Truthy(results.exif.latitude) THEN results.exif.latitude ELSE @,
     !.longitude = IF Truthy(results.exif.longitude) THEN results.exif.longitude ELSE @,
     !.thumb_path = IF results.thumbnails THEN TRUE ELSE @,
     !.ml_processed_at = TRUE]

update_asset_metadata(w) ==
  /\ st[w]["update_asset_metadata"] = "running"
  /\ assets' = [assets EXCEPT ![wfAsset[w]] = updated_row(@, combined[w])]
  /\ st' = [st EXCEPT ![w]["update_asset_metadata"] = "success"]
  /\ UNCHANGED <<ml, faces, people, clusterQ, next_person_id, requests, sess, wfAsset, retries, chord_count, combined, geo, geocode_cache, tagVars, ingestVars, rateVars, modelVars, laneVars, thumbVars, nmsVars, cluster_result>>

\* extract_video_metadata catches every exception and always returns; the
\* chain then applies generate_video_thumbnail with the result prepended.
extract_video_metadata(w) ==
  /\ st[w]["extract_video_metadata"] = "running"
  /\ st' = [st EXCEPT ![w]["extract_video_metadata"] = "success",
                      ![w]["generate_video_thumbnail"] = "queued"]
  /\ UNCHANGED <<ml, faces, people, clusterQ, next_person_id, requests, sess, wfAsset, retries, chord_count, combined, geo, geocode_cache, assets, tagVars, ingestVars, rateVars, modelVars, laneVars, thumbVars, nmsVars, cluster_result>>

\* generate_video_thumbnail(asset_id, storage_path) is applied by the chain
\* with three positional arguments (parent result, asset_id, storage_path):
\* the call raises TypeError, the task has no retry policy and the chain
\* stops.
generate_video_thumbnail(w) ==
  /\ st[w]["generate_video_thumbnail"] = "running"
  /\ task_raises(w, "generate_video_thumbnail")
  /\ UNCHANGED <<ml, faces, people, clusterQ, next_person_id, requests, sess, wfAsset, chord_count, combined, geo, geocode_cache, assets, tagVars, ingestVars, rateVars, modelVars, laneVars, thumbVars, nmsVars, cluster_result>>

\* The body of generate_video_thumbnail, for a call that passes (asset_id,
\* storage_path): ffmpeg writes one frame to a NamedTemporaryFile, whose
\* name is picked at random, generate_thumbnails is called on that file,
\* and the frame is unlinked.
generate_video_thumbnail_body(a, t) ==
  /\ asset_type(a) = "video"
  /\ thumb_runs[a] < MaxSubmissions
  /\ write_thumbnails(a, [dir |-> TempDir, stem |-> t])
  /\ UNCHANGED <<pipeVars, ml, faces, people, clusterQ, next_person_id, requests, sess, tagVars, ingestVars, rateVars, modelVars, laneVars, nmsVars, cluster_result>>

\* generate_thumbnails called again for an image asset (reprocessing).
generate_thumbnails_body(a) ==
  /\ asset_type(a) = "image"
  /\ thumb_runs[a] < MaxSubmissions
  /\ write_thumbnails(a, storage_path(a))
  /\ UNCHANGED <<pipeVars, ml, faces, people, clusterQ, next_person_id, requests, sess, tagVars, ingestVars, rateVars, modelVars, laneVars, nmsVars, cluster_result>>

(***************************************************************************)
(* reverse_geocode                                                         *)
(***************************************************************************)
cache_key(w) ==
  round_coords(combined[w].exif.latitude[1], combined[w].exif.longitude[1])

\* Every lookup misses.
never_cached(n, key) == {}

\* if cache_key in _geocode_cache
cached(n, key) == {e \in geocode_cache[n] : e.key = key}

\* Worker n begins to execute the task.  Cache check: a hit returns the
\* cached tuple, a miss goes on to call the external service.
reverse_geocode_begin(n, w) ==
  /\ geo[w].status = "queued"
  /\ IF cached(n, cache_key(w)) # {}
       THEN geo' = [geo EXCEPT ![w] =
                      [status |-> "success", node |-> n, retries |-> 0,
                       result |-> (CHOOSE e \in cached(n, cache_key(w)) : TRUE).loc,
                       cached |-> TRUE]]
       ELSE geo' = [geo EXCEPT ![w].status = "running", ![w].node = n]

reverse_geocode_start(n, w) ==
  /\ reverse_geocode_begin(n, w)
  /\ UNCHANGED <<ml, faces, people, clusterQ, next_person_id, requests, sess, wfAsset, st, retries, chord_count, combined, geocode_cache, assets, tagVars, ingestVars, rateVars, modelVars, laneVars, thumbVars, nmsVars, cluster_result>>

\* rate_limit="1/s": a worker begins a reverse_geocode task only when its
\* own token bucket for the task holds a token, and takes the token.  On a
\* cache miss the external call is issued right away.
rate_limited_start(n, w) ==
  /\ bucket[n] > 0
  /\ reverse_geocode_begin(n, w)
  /\ bucket' = [bucket EXCEPT ![n] = @ - 1]
  /\ geocoder_calls' = IF cached(n, cache_key(w)) = {}
                         THEN [geocoder_calls EXCEPT ![now] = @ + 1]
                         ELSE geocoder_calls
  /\ UNCHANGED <<ml, faces, people, clusterQ, next_person_id, requests, sess, wfAsset, st, retries, chord_count, combined, geocode_cache, assets, tagVars, ingestVars, modelVars, laneVars, thumbVars, nmsVars, cluster_result, now>>

\* A second passes: every bucket is refilled at one token per second up to
\* its capacity.
Tick ==
  /\ now < MaxClock
  /\ now' = now + 1
  /\ bucket' = [n \in WorkerNodes |->
                  IF bucket[n] < bucket_capacity THEN bucket[n] + 1 ELSE bucket[n]]
  /\ UNCHANGED <<pipeVars, ml, faces, people, clusterQ, next_person_id, requests, sess, tagVars, ingestVars, modelVars, laneVars, thumbVars, nmsVars, cluster_result, geocoder_calls>>

\* The answer is not kept.
cache_skip(cache, key, loc) == cache

\* _geocode_cache[cache_key] = (city, state, country)
cache_store(cache, key, loc) ==
  {e \in cache : e.key # key} \cup {[key |-> key, loc |-> loc]}

\* The external call answered: the tuple is cached and returned.  Nothing
\* is written to the Asset row and nothing waits for this result.
reverse_geocode_return(w) ==
  LET loc == geocode_with_nominatim(combined[w].exif.latitude[1],
                                    combined[w].exif.longitude[1])
      n == geo[w].node
  IN
  /\ geo[w].status = "running"
  /\ geocode_cache' = [geocode_cache EXCEPT ![n] = cache_store(@, cache_key(w), loc)]
  /\ geo' = [geo EXCEPT ![w] = [status |-> "success", node |-> n, retries |-> 0,
                                result |-> loc, cached |-> FALSE]]
  /\ UNCHANGED <<ml, faces, people, clusterQ, next_person_id, requests, sess, wfAsset, st, retries, chord_count, combined, assets, tagVars, ingestVars, rateVars, modelVars, laneVars, thumbVars, nmsVars, cluster_result>>

\* GeocoderTimedOut / GeocoderServiceError propagate: autoretry.
reverse_geocode_raise(w) ==
  /\ geo[w].status = "running"
  /\ IF may_retry(geo[w].retries)
       THEN geo' = [geo EXCEPT ![w].status = "queued", ![w].retries = @ + 1]
       ELSE geo' = [geo EXCEPT ![w].status = "failure"]
  /\ UNCHANGED <<ml, faces, people, clusterQ, next_person_id, requests, sess, wfAsset, st, retries, chord_count, combined, geocode_cache, assets, tagVars, ingestVars, rateVars, modelVars, laneVars, thumbVars, nmsVars, cluster_result>>

(***************************************************************************)
(* The inference session cache (ml/models.py).                             *)
(***************************************************************************)
\* if model_name in _model_sessions: return _model_sessions[model_name]
\* Otherwise the caller goes on to fetch the file and build a session.
get_model_session_check(c, m) ==
  /\ call[c].pc = "idle"
  /\ IF model_sessions[m] # NoSession
       THEN /\ given' = given \cup {<<m, model_sessions[m]>>}
            /\ UNCHANGED call
       ELSE /\ call' = [call EXCEPT ![c] = [pc |-> "load", model |-> m]]
            /\ UNCHANGED given
  /\ UNCHANGED <<pipeVars, ml, faces, people, clusterQ, next_person_id, requests, sess, tagVars, ingestVars, rateVars, laneVars, thumbVars, nmsVars, cluster_result, available, model_sessions, loads>>

\* download_model, ort.InferenceSession(...), then the store into
\* _model_sessions and the return; download_model raises when the file is
\* neither in MODEL_CACHE_DIR nor retrievable, and nothing is stored.
get_model_session_load(c) ==
  LET m == call[c].model
      session == loads[m] + 1
  IN
  /\ call[c].pc = "load"
  /\ call' = [call EXCEPT ![c] = IdleCall]
  /\ IF m \in available
       THEN /\ loads' = [loads EXCEPT ![m] = session]
            /\ model_sessions' = [model_sessions EXCEPT ![m] = session]
            /\ given' = given \cup {<<m, session>>}
       ELSE UNCHANGED <<loads, model_sessions, given>>
  /\ UNCHANGED <<pipeVars, ml, faces, people, clusterQ, next_person_id, requests, sess, tagVars, ingestVars, rateVars, laneVars, thumbVars, nmsVars, cluster_result, available>>

(***************************************************************************)
(* The visual-intelligence group (object_scene.py, face_processing.py).    *)
(***************************************************************************)
\* process_ml_intelligence: queues the three visual stages of an asset as
\* a group.  It is a task of its own; no task of the asset pipeline and no
\* API handler applies it.
process_ml_intelligence(a) ==
  \E g \in Groups :
    /\ Submitted < MaxSubmissions
    /\ asset_type(a) = "image"
    /\ ml[g].asset = NoAsset
    /\ \A h \in Groups : h < g => ml[h].asset # NoAsset
    /\ ml' = [ml EXCEPT ![g] = [asset |-> a, stage |-> [s \in MlStages |-> "queued"]]]
    /\ UNCHANGED <<pipeVars, faces, people, clusterQ, next_person_id, requests, sess, tagVars, ingestVars, rateVars, modelVars, laneVars, thumbVars, nmsVars, cluster_result>>

\* The queued visual stage begins to execute.
stage_begin(g, s) ==
  /\ ml[g].stage[s] = "queued"
  /\ ml' = [ml EXCEPT ![g].stage[s] = "running"]

\* An ML-lane worker takes a queued visual stage.
StartStage(g, s) ==
  /\ stage_begin(g, s)
  /\ UNCHANGED <<pipeVars, faces, people, clusterQ, next_person_id, requests, sess, tagVars, ingestVars, rateVars, modelVars, laneVars, thumbVars, nmsVars, cluster_result>>

\* Identity of the k-th Face row inserted by the run of group g.
face_id(g, k) == 10 * g + k

new_face(a, embedding) ==
  [asset_id |-> a, embedding |-> embedding, person_id |-> NULL]

\* detect_and_encode_faces: inserts one Face row per detection in a single
\* commit and then queues cluster_faces for the owner; returns early,
\* queueing nothing, when no face was detected.
\* detect_faces returns [] when the RetinaFace session cannot be obtained.
detect_faces(a) ==
  IF "retinaface" \in available THEN DetectedFaces(a) ELSE <<>>

\* get_face_embeddings_batch returns [None] * len(faces) when the ArcFace
\* session cannot be obtained.
get_face_embeddings_batch(detected) ==
  IF "arcface" \in available THEN detected ELSE [k \in DOMAIN detected |-> None]

\* detect_objects and classify_scene return [] when their session cannot be
\* obtained.
detect_objects(a) ==
  IF "yolov8n" \in available THEN DetectedObjects(a) ELSE <<>>

classify_scene(a) ==
  IF "places365" \in available THEN ClassifiedScenes(a) ELSE <<>>

detect_and_encode_faces_run(g) ==
  LET a == ml[g].asset
      detected == get_face_embeddings_batch(detect_faces(a))
      inserted == {face_id(g, k) : k \in 1 .. Len(detected)}
  IN
  /\ ml[g].stage["detect_and_encode_faces"] = "running"
  /\ ml' = [ml EXCEPT ![g].stage["detect_and_encode_faces"] = "success"]
  /\ faces' = [f \in DOMAIN faces \cup inserted |->
                 IF f \in DOMAIN faces THEN faces[f]
                 ELSE new_face(a, detected[f - face_id(g, 0)])]
  /\ clusterQ' = IF detected = <<>> THEN clusterQ
                 ELSE [clusterQ EXCEPT ![asset_owner(a)] = @ + 1]
  /\ UNCHANGED <<pipeVars, people, next_person_id, requests, sess, tagVars, ingestVars, rateVars, modelVars, thumbVars, nmsVars, cluster_result>>

detect_and_encode_faces(g) ==
  /\ detect_and_encode_faces_run(g)
  /\ UNCHANGED laneVars

\* The AssetTag rows a run adds to the session: one per detection, for the
\* Tag with that name and type (got or created).
asset_tag_rows(a, names, tag_type) ==
  [k \in 1 .. Len(names) |-> <<a, <<names[k], tag_type>>>>]

\* UniqueConstraint("asset_id", "tag_id"): the INSERTs fail when two of the
\* new rows are for the same pair, or a committed row has the pair.
violates_uq_asset_tag(rows) ==
  \/ \E j, k \in DOMAIN rows : j # k /\ rows[j] = rows[k]
  \/ \E k \in DOMAIN rows : rows[k] \in asset_tags

\* The failure of a stage purges the siblings that have not finished.
abort_group(stages, s) ==
  [u \in MlStages |->
     IF u = s THEN "failure"
     ELSE IF stages[u] \in {"queued", "running"} THEN "none" ELSE stages[u]]

\* Retries exhausted: the task is marked failed; the other tasks of the
\* group are separate messages and are left alone.
failed_stage(stages, s) == [stages EXCEPT ![s] = "failure"]

\* The usage counts the loop of a stage reads for the tags of its rows: the
\* count of the Tag row it selected, -1 where it found none.
selected_tags(rows) ==
  [t \in {rows[k][2] : k \in DOMAIN rows} |->
     IF t \in DOMAIN tags THEN tags[t] ELSE -1]

\* tag.usage_count += 1 per row, on the Tag objects of the session: the
\* flush writes the loaded count (0 for a Tag the stage created) plus the
\* number of rows.
counted_tags(read, rows) ==
  [t \in DOMAIN tags \cup DOMAIN read |->
     IF t \in DOMAIN read
       THEN (IF read[t] = -1 THEN 0 ELSE read[t])
              + Cardinality({k \in DOMAIN rows : rows[k][2] = t})
       ELSE tags[t]]

\* UniqueConstraint("name", "tag_type"): the INSERT of a Tag the stage did
\* not find fails when the row exists by now.
violates_uq_tag_name_type(read) ==
  \E t \in DOMAIN read : read[t] = -1 /\ t \in DOMAIN tags

\* The stage raised: the transaction is rolled back, autoretry up to
\* max_retries, then failure.
tag_stage_raises(g, s) ==
  /\ UNCHANGED <<asset_tags, tags>>
  /\ IF may_retry(stage_retries[g][s])
       THEN /\ ml' = [ml EXCEPT ![g].stage[s] = "queued"]
            /\ stage_retries' = [stage_retries EXCEPT ![g][s] = @ + 1]
       ELSE /\ ml' = [ml EXCEPT ![g].stage = failed_stage(@, s)]
            /\ UNCHANGED stage_retries

\* session.commit() of the rows and of the usage counts.
tag_stage_commits(g, s, read, rows) ==
  /\ asset_tags' = asset_tags \cup {rows[k] : k \in DOMAIN rows}
  /\ tags' = counted_tags(read, rows)
  /\ ml' = [ml EXCEPT ![g].stage[s] = "success"]
  /\ stage_retries' = [stage_retries EXCEPT ![g][s] = 0]

\* A tagging stage (detect_objects_task, classify_scene_task) that runs
\* without another transaction in between: returns early without
\* detections; otherwise adds the rows and commits.  An IntegrityError rolls
\* the transaction back and is re-raised.
tag_stage(g, s, names, tag_type) ==
  LET rows == asset_tag_rows(ml[g].asset, names, tag_type) IN
  /\ ml[g].stage[s] = "running"
  /\ tag_read[g][s] = NoRead
  /\ IF names = <<>>
       THEN /\ ml' = [ml EXCEPT ![g].stage[s] = "success"]
            /\ stage_retries' = [stage_retries EXCEPT ![g][s] = 0]
            /\ UNCHANGED <<asset_tags, tags>>
       ELSE IF violates_uq_asset_tag(rows)
         THEN tag_stage_raises(g, s)
         ELSE tag_stage_commits(g, s, selected_tags(rows), rows)
  /\ UNCHANGED tag_read
  /\ UNCHANGED <<pipeVars, faces, people, clusterQ, next_person_id, requests, sess, ingestVars, rateVars, modelVars, thumbVars, nmsVars, cluster_result>>

\* The same stage as two steps.  First the detections and the SELECTs of
\* the loop: the Tag rows are loaded into the session.
tag_stage_select(g, s, names, tag_type) ==
  LET rows == asset_tag_rows(ml[g].asset, names, tag_type) IN
  /\ ml[g].stage[s] = "running"
  /\ tag_read[g][s] = NoRead
  /\ names # <<>>
  /\ tag_read' = [tag_read EXCEPT ![g][s] = selected_tags(rows)]
  /\ UNCHANGED <<ml, stage_retries, asset_tags, tags>>
  /\ UNCHANGED <<pipeVars, faces, people, clusterQ, next_person_id, requests, sess, ingestVars, rateVars, modelVars, laneVars, thumbVars, nmsVars, cluster_result>>

\* Then the INSERTs, the UPDATE of the usage counts and the commit.
tag_stage_commit(g, s, names, tag_type) ==
  LET rows == asset_tag_rows(ml[g].asset, names, tag_type) IN
  /\ ml[g].stage[s] = "running"
  /\ tag_read[g][s] # NoRead
  /\ IF violates_uq_tag_name_type(tag_read[g][s]) \/ violates_uq_asset_tag(rows)
       THEN tag_stage_raises(g, s)
       ELSE tag_stage_commits(g, s, tag_read[g][s], rows)
  /\ tag_read' = [tag_read EXCEPT ![g][s] = NoRead]
  /\ UNCHANGED <<pipeVars, faces, people, clusterQ, next_person_id, requests, sess, ingestVars, rateVars, modelVars, laneVars, thumbVars, nmsVars, cluster_result>>

detect_objects_task_run(g) ==
  tag_stage(g, "detect_objects_task", detect_objects(ml[g].asset), "object")

classify_scene_task_run(g) ==
  tag_stage(g, "classify_scene_task", classify_scene(ml[g].asset), "scene")

detect_objects_task(g) ==
  /\ detect_objects_task_run(g)
  /\ UNCHANGED laneVars

classify_scene_task(g) ==
  /\ classify_scene_task_run(g)
  /\ UNCHANGED laneVars

(***************************************************************************)
(* Non-maximum suppression (ml/face_detection.py, ml/object_detection.py). *)
(* Boxes lie on a grid of quarters of the image; thresholds are in percent.*)
(***************************************************************************)
Boxes ==
  {[x |-> 0, y |-> 0, w |-> 2, h |-> 2],
   [x |-> 1, y |-> 0, w |-> 2, h |-> 2],
   [x |-> 0, y |-> 0, w |-> 2, h |-> 3],
   [x |-> 3, y |-> 3, w |-> 1, h |-> 1]}
ClassIds == {0, 1}
Confidences == {1, 2}
Detections == [box : Boxes, class_id : ClassIds, confidence : Confidences]
DetectionLists == UNION {[1 .. n -> Detections] : n \in 0 .. MaxDetections}

Max2(a, b) == IF a >= b THEN a ELSE b
Min2(a, b) == IF a <= b THEN a ELSE b

\* _calculate_iou, as the fraction <<intersection, union>> (<<0, 1>> is 0.0).
calculate_iou(b1, b2) ==
  LET x1 == Max2(b1.x, b2.x)
      y1 == Max2(b1.y, b2.y)
      x2 == Min2(b1.x + b1.w, b2.x + b2.w)
      y2 == Min2(b1.y + b1.h, b2.y + b2.h)
      intersection == (x2 - x1) * (y2 - y1)
      union == b1.w * b1.h + b2.w * b2.h - intersection
  IN IF x2 <= x1 \/ y2 <= y1 THEN <<0, 1>>
     ELSE IF union > 0 THEN <<intersection, union>> ELSE <<0, 1>>

\* iou > threshold
exceeds(iou, threshold) == iou[1] * 100 > threshold * iou[2]

\* sorted(..., key=confidence, reverse=True): stable, highest first.
RECURSIVE sort_by_confidence(_)
sort_by_confidence(s) ==
  IF s = <<>> THEN <<>>
  ELSE LET d == s[Len(s)]
           rest == sort_by_confidence(SubSeq(s, 1, Len(s) - 1))
           before == SelectSeq(rest, LAMBDA e : e.confidence >= d.confidence)
           after == SelectSeq(rest, LAMBDA e : e.confidence < d.confidence)
       IN before \o <<d>> \o after

\* Every detection is kept.
not_suppressed(d, keep, threshold) == FALSE

\* The inner loop: the detection overlaps a kept one by more than the
\* threshold.
suppressed(d, keep, threshold) ==
  \E k \in 1 .. Len(keep) : exceeds(calculate_iou(d.box, keep[k].box), threshold)

\* The outer loop over the sorted detections.
RECURSIVE nms_keep(_, _, _)
nms_keep(s, keep, threshold) ==
  IF s = <<>> THEN keep
  ELSE nms_keep(Tail(s),
                IF suppressed(Head(s), keep, threshold) THEN keep
                ELSE Append(keep, Head(s)),
                threshold)

\* face_detection._apply_nms
apply_nms_faces(fs, threshold) == nms_keep(sort_by_confidence(fs), <<>>, threshold)

\* The keys of by_class, in the order of their insertion.
RECURSIVE class_order(_)
class_order(s) ==
  IF s = <<>> THEN <<>>
  ELSE <<Head(s).class_id>>
         \o class_order(SelectSeq(Tail(s), LAMBDA e : e.class_id # Head(s).class_id))

\* object_detection._apply_nms: suppression within each class.
RECURSIVE nms_per_class(_, _, _)
nms_per_class(cs, objs, threshold) ==
  IF cs = <<>> THEN <<>>
  ELSE nms_keep(sort_by_confidence(SelectSeq(objs, LAMBDA e : e.class_id = Head(cs))),
                <<>>, threshold)
         \o nms_per_class(Tail(cs), objs, threshold)

apply_nms_objects(objs, threshold) == nms_per_class(class_order(objs), objs, threshold)

\* The detections parsed from the output of the model.
parse_output ==
  /\ nms_in = <<>>
  /\ nms_out.by = "none"
  /\ \E d \in DetectionLists : nms_in' = d
  /\ UNCHANGED nms_out
  /\ UNCHANGED <<pipeVars, ml, faces, people, clusterQ, next_person_id, requests, sess, tagVars, ingestVars, rateVars, modelVars, laneVars, thumbVars, cluster_result>>

\* _parse_retinaface_output: NMS if there are several faces.
detect_faces_nms ==
  /\ nms_out.by = "none"
  /\ nms_out' = [by |-> "faces",
                  boxes |-> IF Len(nms_in) > 1
                              THEN apply_nms_faces(nms_in, face_nms_threshold)
                              ELSE nms_in]
  /\ UNCHANGED nms_in
  /\ UNCHANGED <<pipeVars, ml, faces, people, clusterQ, next_person_id, requests, sess, tagVars, ingestVars, rateVars, modelVars, laneVars, thumbVars, cluster_result>>

\* _parse_yolo_output
detect_objects_nms ==
  /\ nms_out.by = "none"
  /\ nms_out' = [by |-> "objects",
                  boxes |-> apply_nms_objects(nms_in, object_nms_threshold)]
  /\ UNCHANGED nms_in
  /\ UNCHANGED <<pipeVars, ml, faces, people, clusterQ, next_person_id, requests, sess, tagVars, ingestVars, rateVars, modelVars, laneVars, thumbVars, cluster_result>>

(***************************************************************************)
(* The ML lane: which worker process executes which task.                  *)
(***************************************************************************)
\* The ML-lane tasks process p is executing.
in_flight(p) ==
  {<<g, s>> \in Groups \X MlStages :
     stage_worker[g][s] = p /\ ml[g].stage[s] = "running"}
    \cup (IF sess[p].op = "cluster_faces" THEN {<<0, "cluster_faces">>} ELSE {})

\* The process takes a task whatever it is executing.
always_free(p) == TRUE

\* One in-flight task per worker process: a process takes the next message
\* of the ML lane only when it is executing none.
worker_free(p) == in_flight(p) = {}

\* Process p takes a queued visual stage.
worker_takes_stage(p, g, s) ==
  /\ worker_free(p)
  /\ stage_begin(g, s)
  /\ stage_worker' = [stage_worker EXCEPT ![g][s] = p]
  /\ UNCHANGED <<pipeVars, faces, people, clusterQ, next_person_id, requests, sess, tagVars, ingestVars, rateVars, modelVars, thumbVars, nmsVars, cluster_result>>

\* The task process p took returns or raises; the process is free again.
worker_runs_stage(p, g, s) ==
  /\ stage_worker[g][s] = p
  /\ stage_worker' = [stage_worker EXCEPT ![g][s] = NoWorker]
  /\ \/ s = "detect_and_encode_faces" /\ detect_and_encode_faces_run(g)
     \/ s = "detect_objects_task" /\ detect_objects_task_run(g)
     \/ s = "classify_scene_task" /\ classify_scene_task_run(g)

(***************************************************************************)
(* Face clustering (face_processing.py).                                   *)
(***************************************************************************)
face_row(f) ==
  [id |-> f, embedding |-> faces[f].embedding, person_id |-> faces[f].person_id]

faces_of(p) == {f \in DOMAIN faces : faces[f].person_id = p}

\* select(Face).join(Face.asset).where(Face.person_id.is_(None))
\*             .where(Face.embedding.isnot(None))
\* The statement has no condition on the owner of the asset.
unassigned_faces(owner) ==
  {face_row(f) : f \in {g \in DOMAIN faces :
                          faces[g].person_id = NULL /\ faces[g].embedding # None}}

\* 1000 * cos(k * 45 degrees), k = 0 .. 4
Cos1000 == <<1000, 707, 0, -707, -1000>>

\* metric="cosine": 1 - cos of the angle between the two unit vectors,
\* in thousandths.
cosine_distance(e1, e2) ==
  LET d == IF e1 >= e2 THEN e1 - e2 ELSE e2 - e1
      k == IF d > 4 THEN 8 - d ELSE d
  IN  1000 - Cos1000[k + 1]

\* DBSCAN(eps=0.5, min_samples=2, metric="cosine").fit(embeddings)
neighbours(r, rows) ==
  {q \in rows : cosine_distance(r.embedding[1], q.embedding[1]) <= eps}

core(r, rows) == Cardinality(neighbours(r, rows)) >= min_samples

RECURSIVE expand(_, _)
expand(S, rows) ==
  LET T == S \cup UNION {neighbours(r, rows) : r \in {c \in S : core(c, rows)}}
  IN  IF T = S THEN S ELSE expand(T, rows)

\* The clusters (label >= 0); rows in no cluster are noise (label -1).
DBSCAN(rows) == {expand({r}, rows) : r \in {c \in rows : core(c, rows)}}

ids(c) == {r.id : r \in c}
first_id(c) == CHOOSE i \in ids(c) : \A j \in ids(c) : i <= j

\* The clusters in the order of their labels (order of their first row).
RECURSIVE cluster_list(_)
cluster_list(cs) ==
  IF cs = {} THEN <<>>
  ELSE LET c == CHOOSE c \in cs : \A d \in cs : first_id(c) <= first_id(d)
       IN  <<c>> \o cluster_list(cs \ {c})

\* "Check if any face in cluster already has a person": session.get returns
\* the Face objects the SELECT loaded.
existing_person(c) ==
  LET assigned == {r \in c : r.person_id # NULL}
  IN  IF assigned = {} THEN NULL
      ELSE (CHOOSE r \in assigned : \A q \in assigned : r.id <= q.id).person_id

\* The run goes on as if the SELECT never returned too few rows.
no_minimum(rows) == FALSE

\* if len(faces) < 2: return {"clustered": 0}
too_few(rows) == Cardinality(rows) < min_faces

\* First step of cluster_faces: the SELECT, and the early return when fewer
\* than two rows came back.
cluster_faces_select(x, o) ==
  LET rows == unassigned_faces(o) IN
  /\ sess[x].op = "idle"
  /\ clusterQ[o] > 0
  /\ clusterQ' = [clusterQ EXCEPT ![o] = @ - 1]
  /\ cluster_result' = [cluster_result EXCEPT ![x] = "none"]
  /\ sess' = [sess EXCEPT ![x] =
                IF too_few(rows) THEN IdleSession
                ELSE [IdleSession EXCEPT !.op = "cluster_faces", !.pc = "commit",
                                         !.owner = o, !.rows = rows]]
  /\ UNCHANGED <<pipeVars, ml, faces, people, next_person_id, requests, tagVars, ingestVars, rateVars, modelVars, laneVars, thumbVars, nmsVars>>

\* Second step of cluster_faces: clustering of the loaded rows, a Person per
\* cluster, the assignments, and session.commit().
cluster_faces_commit(x) ==
  /\ sess[x].op = "cluster_faces"
  /\ sess[x].pc = "commit"
  /\ \E cl \in {cluster_list(DBSCAN(sess[x].rows))} :
     \E created \in {{i \in 1 .. Len(cl) : existing_person(cl[i]) = NULL}} :
       LET idx == 1 .. Len(cl)
           target(i) ==
             IF i \in created
               THEN next_person_id + Cardinality({j \in created : j < i})
               ELSE existing_person(cl[i])
           cluster_of(f) == CHOOSE i \in idx : f \in ids(cl[i])
           clustered == UNION {ids(cl[i]) : i \in idx}
           targets == {target(i) : i \in idx}
           row_of(p) ==
             LET i == CHOOSE i \in idx : target(i) = p IN
             IF i \in created
               THEN [owner_id |-> sess[x].owner, face_count |-> Cardinality(cl[i]),
                     merged_into_id |-> NULL, cover_face_id |-> first_id(cl[i])]
               ELSE [people[p] EXCEPT
                       !.face_count = Cardinality(cl[i]),
                       !.cover_face_id = IF @ = NULL THEN first_id(cl[i]) ELSE @]
       IN
       /\ next_person_id + Cardinality(created) - 1 <= MaxPeople
       /\ faces' = [f \in DOMAIN faces |->
                      IF f \in clustered
                        THEN [faces[f] EXCEPT !.person_id = target(cluster_of(f))]
                        ELSE faces[f]]
       /\ people' = [p \in DOMAIN people \cup {target(i) : i \in created} |->
                       IF p \in targets THEN row_of(p) ELSE people[p]]
       /\ next_person_id' = next_person_id + Cardinality(created)
  /\ sess' = [sess EXCEPT ![x] = IdleSession]
  /\ UNCHANGED <<pipeVars, ml, clusterQ, requests, tagVars, ingestVars, rateVars, modelVars, laneVars, thumbVars, nmsVars, cluster_result>>

\* The Face and Person rows as the session holds them after the loop has
\* handled the first n clusters: a flushed Person per cluster and the
\* assignments of its faces.  Nothing of this is committed.
session_work(x, cl, n) ==
  LET idx == 1 .. n
      created == {i \in idx : existing_person(cl[i]) = NULL}
      target(i) ==
        IF i \in created
          THEN next_person_id + Cardinality({j \in created : j < i})
          ELSE existing_person(cl[i])
      cluster_of(f) == CHOOSE i \in idx : f \in ids(cl[i])
      clustered == UNION {ids(cl[i]) : i \in idx}
      targets == {target(i) : i \in idx}
      row_of(p) ==
        LET i == CHOOSE i \in idx : target(i) = p IN
        IF i \in created
          THEN [owner_id |-> sess[x].owner, face_count |-> Cardinality(cl[i]),
                merged_into_id |-> NULL, cover_face_id |-> first_id(cl[i])]
          ELSE [people[p] EXCEPT
                  !.face_count = Cardinality(cl[i]),
                  !.cover_face_id = IF @ = NULL THEN first_id(cl[i]) ELSE @]
  IN  [faces |-> [f \in DOMAIN faces |->
                    IF f \in clustered
                      THEN [faces[f] EXCEPT !.person_id = target(cluster_of(f))]
                      ELSE faces[f]],
       people |-> [p \in DOMAIN people \cup {target(i) : i \in created} |->
                     IF p \in targets THEN row_of(p) ELSE people[p]],
       created |-> Cardinality(created)]

\* A session that is closed with its flushed rows left in the tables.
session_close_flushed(committed, flushed) == flushed

\* get_sync_session: finally session.close().  Closing the session without
\* a commit rolls its transaction back: the tables are as committed.
session_close(committed, flushed) == committed

\* cluster_faces raises while the loop is at work (or at session.commit()):
\* n clusters are handled, the exception leaves the with block, the task
\* logs and re-raises.  A shared_task without autoretry: no retry.
cluster_faces_raise(x) ==
  /\ sess[x].op = "cluster_faces"
  /\ sess[x].pc = "commit"
  /\ \E cl \in {cluster_list(DBSCAN(sess[x].rows))} :
     \E n \in 0 .. Len(cl) :
     \E work \in {session_work(x, cl, n)} :
       /\ next_person_id + work.created - 1 <= MaxPeople
       /\ faces' = session_close(faces, work.faces)
       /\ people' = session_close(people, work.people)
  /\ sess' = [sess EXCEPT ![x] = IdleSession]
  /\ cluster_result' = [cluster_result EXCEPT ![x] = "raised"]
  /\ UNCHANGED <<pipeVars, ml, clusterQ, next_person_id, requests, tagVars, ingestVars, rateVars, modelVars, laneVars, thumbVars, nmsVars>>

\* from sklearn.cluster import DBSCAN fails: the ImportError leaves the
\* with block before any row is touched, and the task returns
\* {"error": "sklearn not installed"}.
cluster_faces_import_error(x) ==
  /\ sess[x].op = "cluster_faces"
  /\ sess[x].pc = "commit"
  /\ faces' = session_close(faces, faces)
  /\ people' = session_close(people, people)
  /\ sess' = [sess EXCEPT ![x] = IdleSession]
  /\ cluster_result' = [cluster_result EXCEPT ![x] = "error"]
  /\ UNCHANGED <<pipeVars, ml, clusterQ, next_person_id, requests, tagVars, ingestVars, rateVars, modelVars, laneVars, thumbVars, nmsVars>>

(***************************************************************************)
(* Manual merge: POST /people/{id}/merge (api/v1/people.py) and the        *)
(* merge_people task (face_processing.py).                                 *)
(***************************************************************************)
loaded(x, op, owner, keep, merge) ==
  [IdleSession EXCEPT !.op = op, !.pc = "select", !.owner = owner,
                      !.keep = keep, !.merge = merge,
                      !.keep_count = people[keep].face_count,
                      !.merge_count = people[merge].face_count,
                      !.merge_into = people[merge].merged_into_id]

\* The endpoint loads both rows and answers 404 / 404 / 400 before it
\* touches anything.
merge_people_api_get(x, user, keep, merge) ==
  /\ sess[x].op = "idle"
  /\ requests < MaxRequests
  /\ sess' = [sess EXCEPT ![x] =
                IF keep \notin DOMAIN people \/ people[keep].owner_id # user
                  THEN IdleSession
                ELSE IF merge \notin DOMAIN people \/ people[merge].owner_id # user
                  THEN IdleSession
                ELSE IF keep = merge
                  THEN IdleSession
                ELSE loaded(x, "merge_people_api", user, keep, merge)]
  /\ requests' = IF sess'[x].op = "idle" THEN requests ELSE requests + 1
  /\ UNCHANGED <<pipeVars, ml, faces, people, clusterQ, next_person_id, tagVars, ingestVars, rateVars, modelVars, laneVars, thumbVars, nmsVars, cluster_result>>

\* The task loads both rows and returns an error when one is missing; it
\* compares neither the owners nor the two ids.
merge_people_task_get(x, keep, merge) ==
  /\ sess[x].op = "idle"
  /\ requests < MaxRequests
  /\ sess' = [sess EXCEPT ![x] =
                IF keep \notin DOMAIN people \/ merge \notin DOMAIN people
                  THEN IdleSession
                ELSE loaded(x, "merge_people_task", people[keep].owner_id, keep, merge)]
  /\ requests' = IF sess'[x].op = "idle" THEN requests ELSE requests + 1
  /\ UNCHANGED <<pipeVars, ml, faces, people, clusterQ, next_person_id, tagVars, ingestVars, rateVars, modelVars, laneVars, thumbVars, nmsVars, cluster_result>>

\* select(Face).where(Face.person_id == person_merge.id), respectively the
\* lazy load of person_merge.faces.
merge_people_select(x) ==
  /\ sess[x].op \in {"merge_people_api", "merge_people_task"}
  /\ sess[x].pc = "select"
  /\ sess' = [sess EXCEPT ![x].pc = "commit",
                          ![x].rows = {face_row(f) : f \in faces_of(sess[x].merge)}]
  /\ UNCHANGED <<pipeVars, ml, faces, people, clusterQ, next_person_id, requests, tagVars, ingestVars, rateVars, modelVars, laneVars, thumbVars, nmsVars, cluster_result>>

\* The kept Person's count is left as loaded.
merged_counts_not_added(s) == [keep |-> s.keep_count, merge |-> 0]

\* The in-memory assignments of the merge, in program order, applied to the
\* values the session loaded.
merged_counts(s) ==
  LET kept == s.keep_count + s.merge_count
  IN  [keep |-> IF s.keep = s.merge THEN 0 ELSE kept, merge |-> 0]

\* The flush writes the attributes whose value differs from the loaded one.
merged_people(s) ==
  LET c == merged_counts(s)
      p1 == IF c.keep # s.keep_count
              THEN [people EXCEPT ![s.keep].face_count = c.keep] ELSE people
      p2 == IF s.merge # s.keep /\ c.merge # s.merge_count
              THEN [p1 EXCEPT ![s.merge].face_count = c.merge] ELSE p1
  IN  IF s.merge_into # s.keep
        THEN [p2 EXCEPT ![s.merge].merged_into_id = s.keep] ELSE p2

\* Every loaded face gets person_id = keep; the flush updates the rows whose
\* loaded value was a different one.
merged_faces(s) ==
  [f \in DOMAIN faces |->
     IF \E r \in s.rows : r.id = f /\ r.person_id # s.keep
       THEN [faces[f] EXCEPT !.person_id = s.keep] ELSE faces[f]]

\* An UPDATE of, or a foreign key to, a Person row that another session
\* deleted in the meantime fails and the transaction is rolled back.
merge_fails(s) == s.keep \notin DOMAIN people \/ s.merge \notin DOMAIN people

merge_people_commit(x) ==
  LET s == sess[x] IN
  /\ s.op \in {"merge_people_api", "merge_people_task"}
  /\ s.pc = "commit"
  /\ merged_counts(s).keep <= MaxFaceCount
  /\ IF merge_fails(s)
       THEN UNCHANGED <<faces, people>>
       ELSE /\ faces' = merged_faces(s)
            /\ people' = merged_people(s)
  /\ sess' = [sess EXCEPT ![x] = IdleSession]
  /\ UNCHANGED <<pipeVars, ml, clusterQ, next_person_id, requests, tagVars, ingestVars, rateVars, modelVars, laneVars, thumbVars, nmsVars, cluster_result>>

(***************************************************************************)
(* DELETE /people/{id} (api/v1/people.py).                                 *)
(***************************************************************************)
delete_person_get(x, user, p) ==
  /\ sess[x].op = "idle"
  /\ requests < MaxRequests
  /\ sess' = [sess EXCEPT ![x] =
                IF p \notin DOMAIN people \/ people[p].owner_id # user
                  THEN IdleSession
                ELSE [IdleSession EXCEPT !.op = "delete_person", !.pc = "select",
                                         !.owner = user, !.keep = p]]
  /\ requests' = IF sess'[x].op = "idle" THEN requests ELSE requests + 1
  /\ UNCHANGED <<pipeVars, ml, faces, people, clusterQ, next_person_id, tagVars, ingestVars, rateVars, modelVars, laneVars, thumbVars, nmsVars, cluster_result>>

delete_person_select(x) ==
  /\ sess[x].op = "delete_person"
  /\ sess[x].pc = "select"
  /\ sess' = [sess EXCEPT ![x].pc = "commit",
                          ![x].rows = {face_row(f) : f \in faces_of(sess[x].keep)}]
  /\ UNCHANGED <<pipeVars, ml, faces, people, clusterQ, next_person_id, requests, tagVars, ingestVars, rateVars, modelVars, laneVars, thumbVars, nmsVars, cluster_result>>

\* The Person row stays.
person_kept(rows, p) == rows

\* await db.delete(person): the row is deleted; people.merged_into_id is
\* ON DELETE SET NULL.
person_deleted(rows, p) ==
  [q \in DOMAIN rows \ {p} |->
     IF rows[q].merged_into_id = p
       THEN [rows[q] EXCEPT !.merged_into_id = NULL] ELSE rows[q]]

\* The loaded faces are detached and the row is deleted; the foreign keys
\* faces.person_id and people.merged_into_id are ON DELETE SET NULL.
delete_person_commit(x) ==
  LET s == sess[x]
      p == s.keep
  IN
  /\ s.op = "delete_person"
  /\ s.pc = "commit"
  /\ faces' = [f \in DOMAIN faces |->
                 IF f \in ids(s.rows) \/ faces[f].person_id = p
                   THEN [faces[f] EXCEPT !.person_id = NULL] ELSE faces[f]]
  /\ people' = person_deleted(people, p)
  /\ sess' = [sess EXCEPT ![x] = IdleSession]
  /\ UNCHANGED <<pipeVars, ml, clusterQ, next_person_id, requests, tagVars, ingestVars, rateVars, modelVars, laneVars, thumbVars, nmsVars, cluster_result>>

(***************************************************************************)
(* Ingest: POST /assets (api/v1/assets.py) and create_asset               *)
(* (services/asset_service.py).                                            *)
(***************************************************************************)
\* Every content type passes the validation.
any_type(mime_type) == TRUE

\* if mime_type not in ALLOWED_TYPES: raise ValueError
allowed(mime_type) == mime_type \in ALLOWED_TYPES

\* The lookup finds nothing.
get_asset_by_nothing(user, file_hash) == {}

\* select(Asset).where(owner_id == user_id, file_hash_sha256 == file_hash,
\*                     deleted_at IS NULL)
get_asset_by_hash(user, file_hash) ==
  {i \in DOMAIN records : /\ records[i].owner_id = user
                          /\ records[i].file_hash_sha256 = file_hash
                          /\ ~records[i].deleted_at}

response(status, asset, is_duplicate) ==
  [status |-> status, asset |-> asset, is_duplicate |-> is_duplicate]

\* First part of the request: content-type validation, hash, and the
\* duplicate lookup.  ValueError is answered with 400; an existing asset is
\* returned as a duplicate, with nothing queued; scalar_one_or_none raises
\* when the lookup matches several rows.
create_asset_check(x, user, file) ==
  LET existing == get_asset_by_hash(user, compute_sha256(file))
      done(resp) == [IdleUpload EXCEPT !.user = user, !.file = file, !.response = resp]
  IN
  /\ up[x].pc = "idle"
  /\ up' = [up EXCEPT ![x] =
              IF ~allowed(content_type(file))
                THEN done(response("400", NULL, FALSE))
              ELSE IF Cardinality(existing) > 1
                THEN done(response("500", NULL, FALSE))
              ELSE IF existing # {}
                THEN done(response("201", CHOOSE i \in existing : TRUE, TRUE))
              ELSE [IdleUpload EXCEPT !.pc = "write", !.user = user, !.file = file,
                                      !.used = storage_used_bytes[user]]]
  /\ UNCHANGED <<pipeVars, ml, faces, people, clusterQ, next_person_id, requests,
                 sess, tagVars, rateVars, modelVars, laneVars, thumbVars, nmsVars, cluster_result, records, storage_writes, storage_used_bytes, enqueued>>

new_asset(user, file) ==
  [owner_id |-> user, file_hash_sha256 |-> compute_sha256(file),
   file_size_bytes |-> content_length(file),
   asset_type |-> get_asset_type(content_type(file)), deleted_at |-> FALSE]

\* Second part: storage.write, the Asset row, the user's storage usage,
\* commit; then upload_asset queues process_asset for the new asset.
create_asset_commit(x) ==
  LET user == up[x].user
      file == up[x].file
  IN
  /\ up[x].pc = "write"
  /\ Len(records) < MaxUploads
  /\ storage_writes' = storage_writes + 1
  /\ records' = Append(records, new_asset(user, file))
  /\ storage_used_bytes' =
       [storage_used_bytes EXCEPT ![user] = up[x].used + content_length(file)]
  /\ enqueued' = Append(enqueued, Len(records) + 1)
  /\ up' = [up EXCEPT ![x] =
              [@ EXCEPT !.pc = "idle",
                        !.response = response("201", Len(records) + 1, FALSE)]]
  /\ UNCHANGED <<pipeVars, ml, faces, people, clusterQ, next_person_id, requests,
                 sess, tagVars, rateVars, modelVars, laneVars, thumbVars, nmsVars, cluster_result>>

UploadStep(S) ==
  \/ \E x \in S, u \in Owners, f \in Files : create_asset_check(x, u, f)
  \/ \E x \in S : create_asset_commit(x)

\* Upload requests, served concurrently.
UploadNext == UploadStep(Sessions)

UploadSpec == Init /\ [][UploadNext]_vars

\* Upload requests, one at a time.
SeqUploadNext == UploadStep({1})

SeqUploadSpec == Init /\ [][SeqUploadNext]_vars

\* The tasks of the image graph, each returning without an exception.
ImageTaskStep ==
  \/ \E w \in Workflows, s \in ImageStages : StartTask(w, s)
  \/ \E w \in Workflows : extract_exif(w)
  \/ \E w \in Workflows : generate_thumbnails(w)
  \/ \E w \in Workflows : process_extraction_results(w)
  \/ \E w \in Workflows : update_asset_metadata(w)

TaskStep ==
  \/ ImageTaskStep
  \/ \E w \in Workflows, s \in VideoStages : StartTask(w, s)
  \/ \E w \in Workflows : generate_thumbnails_raise(w)
  \/ \E w \in Workflows : extract_video_metadata(w)
  \/ \E w \in Workflows : generate_video_thumbnail(w)

\* reverse_geocode tasks executed by worker n1, whose pool runs several at
\* the same time on the one _geocode_cache of the process.
GeocodeStep ==
  \/ \E w \in Workflows : reverse_geocode_start("n1", w)
  \/ \E w \in Workflows : reverse_geocode_return(w)
  \/ \E w \in Workflows : reverse_geocode_raise(w)

\* reverse_geocode tasks executed one after the other by worker n1.
geocoding_in_progress == \E v \in Workflows : geo[v].status = "running"

SeqGeocodeStep ==
  \/ \E w \in Workflows : ~geocoding_in_progress /\ reverse_geocode_start("n1", w)
  \/ \E w \in Workflows : reverse_geocode_return(w)
  \/ \E w \in Workflows : reverse_geocode_raise(w)

\* reverse_geocode tasks executed by all workers, each of them one task at
\* a time and under its rate limit.
node_busy(n) == \E v \in Workflows : geo[v].status = "running" /\ geo[v].node = n

RateLimitedStep ==
  \/ \E n \in WorkerNodes, w \in Workflows : ~node_busy(n) /\ rate_limited_start(n, w)
  \/ \E w \in Workflows : reverse_geocode_return(w)
  \/ \E w \in Workflows : reverse_geocode_raise(w)
  \/ Tick

PipelineStep == TaskStep \/ GeocodeStep

StageStep ==
  \/ \E g \in Groups, s \in MlStages : StartStage(g, s)
  \/ \E g \in Groups : detect_and_encode_faces(g)
  \/ \E g \in Groups : detect_objects_task(g)
  \/ \E g \in Groups : classify_scene_task(g)

\* The asset pipeline and the geocoder.
Next ==
  \/ \E a \in Uploads : process_asset(a)
  \/ PipelineStep

Spec == Init /\ [][Next]_vars

\* The workers keep taking and executing the queued task messages.
FairSpec == Spec /\ WF_vars(PipelineStep)

\* Thumbnail generation run and re-run: by the image graph, by a repeated
\* call for an image, and by the body of the video task.
ThumbNext ==
  \/ \E a \in Uploads : process_asset(a)
  \/ \E w \in Workflows : StartTask(w, "generate_thumbnails")
  \/ \E w \in Workflows : generate_thumbnails(w)
  \/ \E w \in Workflows : generate_thumbnails_raise(w)
  \/ \E a \in Assets : generate_thumbnails_body(a)
  \/ \E a \in Assets, t \in TempNames : generate_video_thumbnail_body(a, t)

ThumbSpec == Init /\ [][ThumbNext]_vars

\* Non-maximum suppression applied to a list of detections.
NmsNext ==
  \/ parse_output
  \/ detect_faces_nms
  \/ detect_objects_nms

NmsSpec == Init /\ [][NmsNext]_vars

\* The image graph for photographs with and without a GPS position,
\* among them one taken at latitude 0.
EquatorNext ==
  \/ \E a \in {"a1", "a2"} \cup EquatorAssets : process_asset(a)
  \/ ImageTaskStep

EquatorSpec == Init /\ [][EquatorNext]_vars

\* The image graph and the resolver, one reverse_geocode task at a time,
\* for a photograph with an address and one without.
CacheNext ==
  \/ \E a \in {"a1"} \cup SeaAssets : process_asset(a)
  \/ ImageTaskStep
  \/ SeqGeocodeStep

CacheSpec == Init /\ [][CacheNext]_vars

\* The tagging stages of two photographs, each stage in two steps, in a
\* library that has the scene tag beach.
TagNext ==
  \/ \E a \in {"a1", "a2"} : process_ml_intelligence(a)
  \/ \E g \in Groups, s \in {"detect_objects_task", "classify_scene_task"} :
       StartStage(g, s)
  \/ \E g \in Groups :
       tag_stage_select(g, "detect_objects_task", detect_objects(ml[g].asset), "object")
  \/ \E g \in Groups :
       tag_stage_commit(g, "detect_objects_task", detect_objects(ml[g].asset), "object")
  \/ \E g \in Groups :
       tag_stage_select(g, "classify_scene_task", classify_scene(ml[g].asset), "scene")
  \/ \E g \in Groups :
       tag_stage_commit(g, "classify_scene_task", classify_scene(ml[g].asset), "scene")

TagSpec == TagInit /\ [][TagNext]_vars

\* The image graph for the uploaded photographs, readable or not.
ExifNext ==
  \/ \E a \in {u \in Uploads : asset_type(u) = "image"} : process_asset(a)
  \/ ImageTaskStep
  \/ \E w \in Workflows : generate_thumbnails_raise(w)

ExifSpec == Init /\ [][ExifNext]_vars

\* The asset pipeline for readable photographs that carry a GPS position,
\* with concurrent and with sequential execution of the reverse_geocode
\* tasks.
GeoUploads == {a \in Assets : gps_found(ExifMetadata(a))}

GeoNext ==
  \/ \E a \in GeoUploads : process_asset(a)
  \/ ImageTaskStep
  \/ GeocodeStep

GeoSpec == Init /\ [][GeoNext]_vars

SeqGeoNext ==
  \/ \E a \in GeoUploads : process_asset(a)
  \/ ImageTaskStep
  \/ SeqGeocodeStep

SeqGeoSpec == Init /\ [][SeqGeoNext]_vars

RateNext ==
  \/ \E a \in GeoUploads : process_asset(a)
  \/ ImageTaskStep
  \/ RateLimitedStep

RateSpec == Init /\ [][RateNext]_vars

\* The threads of one worker process asking for inference sessions.
ModelNext ==
  \/ \E c \in Threads, m \in ModelNames : get_model_session_check(c, m)
  \/ \E c \in Threads : get_model_session_load(c)

ModelSpec == DegradedInit /\ [][ModelNext]_vars

\* The visual-intelligence group in a deployment where some models cannot
\* be loaded.
DegradedNext ==
  \/ \E a \in Assets : process_ml_intelligence(a)
  \/ StageStep

DegradedSpec == DegradedInit /\ [][DegradedNext]_vars

\* The four kinds of task of the ML lane, executed by the worker processes.
LaneNext ==
  \/ \E a \in Assets : process_ml_intelligence(a)
  \/ \E p \in MlWorkers, g \in Groups, s \in MlStages : worker_takes_stage(p, g, s)
  \/ \E p \in MlWorkers, g \in Groups, s \in MlStages : worker_runs_stage(p, g, s)
  \/ \E p \in MlWorkers, o \in Owners : worker_free(p) /\ cluster_faces_select(p, o)
  \/ \E p \in MlWorkers : cluster_faces_commit(p)

LaneSpec == Init /\ [][LaneNext]_vars

\* The asset pipeline together with the visual-intelligence group.
IntelNext ==
  \/ \E a \in Uploads : process_asset(a)
  \/ \E a \in Assets : process_ml_intelligence(a)
  \/ PipelineStep
  \/ StageStep

IntelSpec == Init /\ [][IntelNext]_vars

\* Workers keep taking and finishing queued tasks; nothing obliges a client
\* to submit anything.
FairIntelSpec == IntelSpec /\ WF_vars(PipelineStep) /\ WF_vars(StageStep)

\* What feeds the Face table: the face stage of a submitted group.
FaceStageStep ==
  \/ \E a \in Assets : process_ml_intelligence(a)
  \/ \E g \in Groups : StartStage(g, "detect_and_encode_faces")
  \/ \E g \in Groups : detect_and_encode_faces(g)

ClusterStep(S) ==
  \/ \E x \in S, o \in Owners : cluster_faces_select(x, o)
  \/ \E x \in S : cluster_faces_commit(x)

MergeApiStep(S) ==
  \/ \E x \in S, u \in Owners, k \in PersonIds, m \in PersonIds :
       merge_people_api_get(x, u, k, m)
  \/ \E x \in S : merge_people_select(x)
  \/ \E x \in S : merge_people_commit(x)

MergeTaskStep(S) ==
  \E x \in S, k \in PersonIds, m \in PersonIds : merge_people_task_get(x, k, m)

DeleteStep(S) ==
  \/ \E x \in S, u \in Owners, p \in PersonIds : delete_person_get(x, u, p)
  \/ \E x \in S : delete_person_select(x)
  \/ \E x \in S : delete_person_commit(x)

\* Clustering runs only, on any session.
ClusterNext == FaceStageStep \/ ClusterStep(Sessions)

ClusterSpec == Init /\ [][ClusterNext]_vars

\* Face stages and clustering runs, the runs one after the other.
SeqClusterNext == FaceStageStep \/ ClusterStep({1})

SeqClusterSpec == Init /\ [][SeqClusterNext]_vars

\* Face stages and clustering runs that may fail, on any session.
FailClusterNext ==
  \/ FaceStageStep
  \/ ClusterStep(Sessions)
  \/ \E x \in Sessions : cluster_faces_raise(x)
  \/ \E x \in Sessions : cluster_faces_import_error(x)

FailClusterSpec == Init /\ [][FailClusterNext]_vars

\* Merge requests on any session; clustering runs one at a time on session 1
\* (a merge on another session may still run during a clustering run).
ApiNext == FaceStageStep \/ ClusterStep({1}) \/ MergeApiStep(Sessions)

ApiSpec == Init /\ [][ApiNext]_vars

\* Every operation on the Person/Face graph, on any session.
PeopleNext ==
  \/ FaceStageStep
  \/ ClusterStep(Sessions)
  \/ MergeApiStep(Sessions)
  \/ MergeTaskStep(Sessions)
  \/ DeleteStep(Sessions)

PeopleSpec == Init /\ [][PeopleNext]_vars

\* The same operations, one at a time: every operation runs on session 1
\* and completes before the next one begins.
SeqPeopleNext ==
  \/ FaceStageStep
  \/ ClusterStep({1})
  \/ MergeApiStep({1})
  \/ MergeTaskStep({1})
  \/ DeleteStep({1})

SeqPeopleSpec == Init /\ [][SeqPeopleNext]_vars

\* Clustering and merge requests of the HTTP endpoint only, one at a time.
SeqApiNext == FaceStageStep \/ ClusterStep({1}) \/ MergeApiStep({1})

SeqApiSpec == Init /\ [][SeqApiNext]_vars

(***************************************************************************)
(* Properties of the asset pipeline.                                       *)
(***************************************************************************)
image_workflow(w) == wfAsset[w] # NoAsset /\ asset_type(wfAsset[w]) = "image"

\* C1: within a submission, process_extraction_results is queued or started
\* only when both extract_exif and generate_thumbnails of that submission
\* have returned; never when only one of them has.
C1_JoinWaitsForBoth ==
  \A w \in Workflows :
    st[w]["process_extraction_results"] # "none"
      => /\ st[w]["extract_exif"] = "success"
         /\ st[w]["generate_thumbnails"] = "success"

\* The join of a submission is running, both header tasks having returned.
C1_Witness ==
  \E w \in Workflows :
    /\ st[w]["process_extraction_results"] = "running"
    /\ st[w]["extract_exif"] = "success"
    /\ st[w]["generate_thumbnails"] = "success"

stage_started(a, s) ==
  \E g \in Groups : ml[g].asset = a /\ ml[g].stage[s] \in {"running", "success"}

\* C2: once update_asset_metadata has completed for an image asset, each of
\* detect_and_encode_faces, detect_objects_task and classify_scene_task is
\* eventually started for that asset.
C2_StagesEventuallyStarted ==
  \A w \in Workflows :
    (image_workflow(w) /\ st[w]["update_asset_metadata"] = "success")
      ~> (\A s \in MlStages : stage_started(wfAsset[w], s))

intelligence_completed(a) ==
  \E g \in Groups : ml[g].asset = a /\ \A s \in MlStages : ml[g].stage[s] = "success"

\* C3: ml_processed_at of an asset is non-null only if the three visual
\* stages have completed for that asset.
C3_ProcessedOnlyAfterIntelligence ==
  \A a \in Assets : assets[a].ml_processed_at => intelligence_completed(a)

\* C4: once the metadata commit of an image asset whose EXIF coordinates the
\* geocoder resolves has completed, the Asset row carries the resolved city
\* and country.
C4_CommitCarriesLocation ==
  \A w \in Workflows :
    LET a == wfAsset[w]
        exif == ExifMetadata(a)
        loc == geocode_with_nominatim(exif.latitude[1], exif.longitude[1])
    IN  (/\ image_workflow(w)
         /\ st[w]["update_asset_metadata"] = "success"
         /\ gps_found(exif)
         /\ loc # NoLocation)
          => (assets[a].city = loc.city /\ assets[a].country = loc.country)

(***************************************************************************)
(* Properties of the Person/Face graph.                                    *)
(***************************************************************************)
quiescent == \A x \in Sessions : sess[x].op = "idle"

\* A session is in its read-modify-write section from its first read to
\* its commit.
in_section(x) ==
  /\ sess[x].op \in {"cluster_faces", "merge_people_api", "merge_people_task"}
  /\ sess[x].pc \in {"select", "commit"}

\* C5: two cluster_faces runs for the same owner, or a cluster_faces run and
\* a merge for that owner, are never inside their read-modify-write sections
\* at the same time.
C5_OneMutatorPerOwner ==
  \A x \in Sessions, y \in Sessions :
    (/\ x # y
     /\ in_section(x)
     /\ in_section(y)
     /\ sess[x].owner = sess[y].owner)
      => (sess[x].op # "cluster_faces" /\ sess[y].op # "cluster_faces")

\* C6: after clustering runs have finished, overlapping or not, no Person
\* has face_count > 0 and no Face pointing to it.
C6_NoPersonWithoutFaces ==
  quiescent =>
    \A p \in DOMAIN people : people[p].face_count > 0 => faces_of(p) # {}

\* The commit of a merge of two different Persons that is not rolled back.
merge_committed(x) ==
  /\ sess[x].op \in {"merge_people_api", "merge_people_task"}
  /\ sess[x].pc = "commit"
  /\ sess[x].keep # sess[x].merge
  /\ ~merge_fails(sess[x])
  /\ sess'[x].op = "idle"

\* C7: when a merge (keep, mergeSource) commits, whatever ran between its
\* reads and its commit, no Face points to mergeSource and keep.face_count
\* is the number of Faces pointing to keep.
C7_MergeAtomic ==
  [][\A x \in Sessions :
       merge_committed(x) =>
         /\ \A f \in DOMAIN faces' : faces'[f].person_id # sess[x].merge
         /\ people'[sess[x].keep].face_count
              = Cardinality({f \in DOMAIN faces' : faces'[f].person_id = sess[x].keep})]_vars

\* C8: every Face that has a Person belongs to an asset owned by the owner
\* of that Person.
C8_FacesStayWithOwner ==
  \A f \in DOMAIN faces :
    (faces[f].person_id # NULL /\ faces[f].person_id \in DOMAIN people)
      => people[faces[f].person_id].owner_id = asset_owner(faces[f].asset_id)

\* C9: after any sequence of completed cluster, merge and delete operations,
\* face_count of every Person that is not a tombstone equals the number of
\* Faces pointing to it.
C9_FaceCountMatches ==
  quiescent =>
    \A p \in DOMAIN people :
      people[p].merged_into_id = NULL
        => people[p].face_count = Cardinality(faces_of(p))

\* The Persons met when following merged_into_id from p for at most n hops.
RECURSIVE forwarded(_, _)
forwarded(p, n) ==
  IF n = 0 \/ p \notin DOMAIN people \/ people[p].merged_into_id = NULL
    THEN {}
    ELSE {people[p].merged_into_id} \cup forwarded(people[p].merged_into_id, n - 1)

\* C10: following merged_into_id from a Person never returns to it.
C10_NoForwardingCycle ==
  \A p \in DOMAIN people : p \notin forwarded(p, Cardinality(DOMAIN people))

\* C11: a Person that is a tombstone (merged_into_id set) has face_count 0
\* and no Face pointing to it, whatever merges and clustering runs
\* followed the merge that made it one.
C11_TombstoneStaysEmpty ==
  quiescent =>
    \A p \in DOMAIN people :
      people[p].merged_into_id # NULL
        => (people[p].face_count = 0 /\ faces_of(p) = {})

\* C12: the commit of a merge of B into A, A # B, leaves B with face_count 0
\* and merged_into_id = A, moves every Face of B to A, makes A.face_count
\* the sum of the two counts before the merge, and changes no other Face
\* and no other Person.
C12_MergePostcondition ==
  [][\A x \in Sessions :
       merge_committed(x) =>
         LET A == sess[x].keep
             B == sess[x].merge
         IN  /\ DOMAIN people' = DOMAIN people
             /\ DOMAIN faces' = DOMAIN faces
             /\ people'[B].face_count = 0
             /\ people'[B].merged_into_id = A
             /\ people'[A].face_count = people[A].face_count + people[B].face_count
             /\ \A f \in DOMAIN faces :
                  IF faces[f].person_id = B
                    THEN faces'[f] = [faces[f] EXCEPT !.person_id = A]
                    ELSE faces'[f] = faces[f]
             /\ \A p \in DOMAIN people \ {A, B} : people'[p] = people[p]]_vars

\* A merge of a Person with faces into another Person has been committed.
C12_Witness ==
  /\ quiescent
  /\ \E p \in DOMAIN people :
       LET k == people[p].merged_into_id IN
       /\ k # NULL
       /\ k # p
       /\ k \in DOMAIN people
       /\ people[p].face_count = 0
       /\ people[k].face_count = 4
       /\ Cardinality(faces_of(k)) = 4

\* C13: a merge request whose keep and merge ids are the same Person changes
\* no field of any Person or Face, whichever entry point received it.
C13_SelfMergeRejected ==
  [][\A x \in Sessions :
       (/\ sess[x].op \in {"merge_people_api", "merge_people_task"}
        /\ sess[x].keep = sess[x].merge)
         => (faces' = faces /\ people' = people)]_vars

unassigned_with_embedding ==
  {f \in DOMAIN faces : faces[f].person_id = NULL /\ faces[f].embedding # None}

\* C14: a cluster_faces run that starts while fewer than two unassigned
\* Faces with an embedding exist ends at once: it changes no Face and no
\* Person, creates no Person and leaves every session as it was.
C14_TooFewFacesNoOp ==
  [][((\E o \in Owners : clusterQ'[o] < clusterQ[o])
        /\ Cardinality(unassigned_with_embedding) < 2)
       => (/\ faces' = faces
           /\ people' = people
           /\ next_person_id' = next_person_id
           /\ sess' = sess)]_vars

\* The only Face is the unassigned one of a3, and the cluster_faces run its
\* face stage queued has been executed.
C14_Witness ==
  /\ quiescent
  /\ DOMAIN faces # {}
  /\ \A f \in DOMAIN faces : faces[f].asset_id = "a3" /\ faces[f].person_id = NULL
  /\ Cardinality(DOMAIN faces) = 1
  /\ clusterQ["o2"] = 0
  /\ people = <<>>

(***************************************************************************)
(* Properties of ingest.                                                   *)
(***************************************************************************)
\* The request session x takes up in this step.
request_taken(x) == up[x].pc = "idle" /\ up'[x] # up[x]

same_bytes(user, file) ==
  {i \in DOMAIN records : /\ records[i].owner_id = user
                          /\ records[i].file_hash_sha256 = compute_sha256(file)}

ingest_unchanged ==
  /\ records' = records
  /\ storage_writes' = storage_writes
  /\ storage_used_bytes' = storage_used_bytes
  /\ enqueued' = enqueued

\* C15: with uploads handled one after the other, an upload of bytes the
\* owner already has an asset for returns that first asset's id, flagged
\* as duplicate; it creates no asset, writes nothing to storage, leaves
\* the owner's storage usage unchanged and queues no pipeline work.
C15_SecondUploadIsDuplicate ==
  [][\A x \in Sessions :
       (/\ request_taken(x)
        /\ content_type(up'[x].file) \in ALLOWED_TYPES
        /\ same_bytes(up'[x].user, up'[x].file) # {})
         => (/\ up'[x].pc = "idle"
             /\ up'[x].response.status = "201"
             /\ up'[x].response.is_duplicate
             /\ up'[x].response.asset \in same_bytes(up'[x].user, up'[x].file)
             /\ \A i \in same_bytes(up'[x].user, up'[x].file) :
                  up'[x].response.asset <= i
             /\ ingest_unchanged)]_vars

\* The second upload of the same bytes has been answered as a duplicate of
\* the asset the first one created.
C15_Witness ==
  \E x \in Sessions :
    /\ up[x].pc = "idle"
    /\ up[x].response.is_duplicate
    /\ up[x].response.asset \in DOMAIN records
    /\ records[up[x].response.asset].owner_id = up[x].user
    /\ records[up[x].response.asset].file_hash_sha256 = compute_sha256(up[x].file)
    /\ Len(enqueued) = Len(records)

\* C16: an owner never has two non-deleted assets with the same content
\* hash, and process_asset is queued at most once for an owner's bytes,
\* also when uploads interleave.
C16_OneAssetPerHash ==
  /\ \A i, j \in DOMAIN records :
       (/\ i # j
        /\ ~records[i].deleted_at /\ ~records[j].deleted_at
        /\ records[i].owner_id = records[j].owner_id)
         => records[i].file_hash_sha256 # records[j].file_hash_sha256
  /\ \A m, n \in DOMAIN enqueued :
       (/\ m # n
        /\ records[enqueued[m]].owner_id = records[enqueued[n]].owner_id)
         => records[enqueued[m]].file_hash_sha256 # records[enqueued[n]].file_hash_sha256

\* C17: an upload whose content type is not allowed is answered with 400
\* at once: no asset, no storage write, no change of storage usage, no
\* queued task.
C17_BadTypeRejected ==
  [][\A x \in Sessions :
       (request_taken(x) /\ content_type(up'[x].file) \notin ALLOWED_TYPES)
         => (/\ up'[x].pc = "idle"
             /\ up'[x].response = response("400", NULL, FALSE)
             /\ ingest_unchanged)]_vars

\* A text/plain upload has been answered with 400.
C17_Witness ==
  \E x \in Sessions :
    /\ up[x].pc = "idle"
    /\ up[x].file # "none"
    /\ content_type(up[x].file) \notin ALLOWED_TYPES
    /\ up[x].response.status = "400"

(***************************************************************************)
(* Properties of the visual stages.                                        *)
(***************************************************************************)
faces_of_asset(a) == {f \in DOMAIN faces : faces[f].asset_id = a}

\* C18: however often detect_and_encode_faces has been executed for an
\* asset, the asset has the Face rows of one execution: one row per
\* detected face.
C18_FaceStageIdempotent ==
  \A a \in Assets :
    Cardinality(faces_of_asset(a)) <= Len(DetectedFaces(a))

tagged(a, names, tag_type) ==
  \A k \in DOMAIN names : <<a, <<names[k], tag_type>>>> \in asset_tags

\* C19: detect_objects_task and classify_scene_task never end as failed,
\* and once one has succeeded the asset has the AssetTag of every detection
\* (one row per (asset, tag) pair).
C19_TagStagesSucceed ==
  \A g \in Groups :
    ml[g].asset # NoAsset =>
      /\ ml[g].stage["detect_objects_task"] # "failure"
      /\ ml[g].stage["classify_scene_task"] # "failure"
      /\ ml[g].stage["detect_objects_task"] = "success"
           => tagged(ml[g].asset, DetectedObjects(ml[g].asset), "object")
      /\ ml[g].stage["classify_scene_task"] = "success"
           => tagged(ml[g].asset, ClassifiedScenes(ml[g].asset), "scene")

finished(status) == status \in {"success", "failure"}

siblings_finished ==
  /\ \A w \in Workflows :
       st[w]["generate_thumbnails"] = "failure" => st[w]["extract_exif"] = "success"
  /\ \A g \in Groups : \A s \in MlStages :
       ml[g].stage[s] = "failure" => \A u \in MlStages : finished(ml[g].stage[u])

\* C20: when a task of a fan-out has failed for good, every sibling still
\* finishes on its own account (a failure is final, so from some point on
\* every failed task has all its siblings finished); no finished task is
\* undone, no Face or AssetTag row a sibling committed is removed, and no
\* column the pipeline wrote to the Asset row is reverted.
C20_FailureLeavesSiblings ==
  /\ <>[]siblings_finished
  /\ [][/\ \A w \in Workflows : \A s \in Stages :
            finished(st[w][s]) => st'[w][s] = st[w][s]
        /\ \A g \in Groups : \A s \in MlStages :
            finished(ml[g].stage[s]) => ml'[g].stage[s] = ml[g].stage[s]
        /\ \A f \in DOMAIN faces : f \in DOMAIN faces'
        /\ asset_tags \subseteq asset_tags'
        /\ \A a \in Assets :
            /\ assets[a].thumb_path => assets'[a].thumb_path
            /\ assets[a].ml_processed_at => assets'[a].ml_processed_at
            /\ assets[a].latitude # None => assets'[a].latitude = assets[a].latitude]_vars

\* The object stage of a group has failed after its retries and both
\* siblings have succeeded, their rows committed.
C20_Witness ==
  \E g \in Groups :
    /\ ml[g].stage["detect_objects_task"] = "failure"
    /\ stage_retries[g]["detect_objects_task"] = max_retries
    /\ ml[g].stage["detect_and_encode_faces"] = "success"
    /\ ml[g].stage["classify_scene_task"] = "success"
    /\ faces_of_asset(ml[g].asset) # {}
    /\ tagged(ml[g].asset, ClassifiedScenes(ml[g].asset), "scene")
(***************************************************************************)
(* Properties of the retry policy.                                         *)
(***************************************************************************)
\* C21: no stage of the image or video graph is re-queued more than
\* max_retries times, and a stage that is reported failed has used up its
\* max_retries re-executions: none fails without having been retried.
C21_EveryStageRetried ==
  \A w \in Workflows : \A s \in Stages :
    /\ retries[w][s] <= max_retries
    /\ st[w][s] = "failure" => retries[w][s] = max_retries
(***************************************************************************)
(* Properties of the geocode resolver.                                     *)
(***************************************************************************)
\* The reverse_geocode tasks for a rounded key that were answered by the
\* external geocoder (their result says "cached": False).
external_answers(key) ==
  {w \in Workflows : /\ geo[w].status = "success"
                     /\ ~geo[w].cached
                     /\ cache_key(w) = key}

resolved(w) == geo[w].status = "success"

C23_NoDoubleMiss ==
  /\ \A v, w \in Workflows :
       v # w /\ geo[v].status = "running" /\ geo[w].status = "running"
         => cache_key(v) # cache_key(w)
  /\ \A w \in Workflows :
       resolved(w) => Cardinality(external_answers(cache_key(w))) <= 1

\* C24: in no second is more than one call issued to the external
\* geocoder, all workers taken together.
C24_OneCallPerSecond ==
  \A t \in 0 .. MaxClock : geocoder_calls[t] <= 1

(***************************************************************************)
(* Properties of the inference session cache.                              *)
(***************************************************************************)
\* C25: for each model name at most one inference session is ever
\* constructed in the process, and every caller of get_model_session for
\* that name was given the same session.
C25_OneSessionPerModel ==
  \A m \in ModelNames :
    /\ loads[m] <= 1
    /\ \A p, q \in given : p[1] = m /\ q[1] = m => p[2] = q[2]

\* The models a visual stage asks the session cache for.
models_of(s) ==
  IF s = "detect_and_encode_faces" THEN {"retinaface", "arcface"}
  ELSE IF s = "detect_objects_task" THEN {"yolov8n"}
  ELSE {"places365"}

\* The rows the stage s of group g has written.
rows_written(g, s) ==
  IF s = "detect_and_encode_faces"
    THEN {f \in DOMAIN faces : \E k \in 1 .. MaxFaceCount : f = face_id(g, k)}
  ELSE IF s = "detect_objects_task"
    THEN {r \in asset_tags : r[1] = ml[g].asset /\ r[2][2] = "object"}
  ELSE {r \in asset_tags : r[1] = ml[g].asset /\ r[2][2] = "scene"}

\* C26: a visual stage one of whose models cannot be loaded is never
\* retried and never reported failed, and has written no Face and no
\* AssetTag row when it has returned.
C26_LoadFailureGivesEmptyResult ==
  \A g \in Groups : \A s \in MlStages :
    ml[g].asset # NoAsset /\ ~(models_of(s) \subseteq available) =>
      /\ ml[g].stage[s] # "failure"
      /\ stage_retries[g][s] = 0
      /\ ml[g].stage[s] = "success" => rows_written(g, s) = {}

C28_VideoChainRunsToCommit ==
  /\ \A w \in Workflows :
       (wfAsset[w] # NoAsset /\ asset_type(wfAsset[w]) = "video")
         ~> (st[w]["update_asset_metadata"] = "success")
  /\ [](\A w \in Workflows :
         /\ st[w]["generate_video_thumbnail"] # "none"
              => st[w]["extract_video_metadata"] = "success"
         /\ (asset_type(wfAsset[w]) = "video" /\ st[w]["update_asset_metadata"] # "none")
              => st[w]["generate_video_thumbnail"] = "success")

(***************************************************************************)
(* Properties of thumbnail generation.                                     *)
(***************************************************************************)
\* C29: however often thumbnails were generated for an asset, image or
\* video, the derivative files that exist for it are exactly the ones at
\* the paths computed from its storage path and the derivative names: a
\* re-run overwrites them and leaves no further file.
C29_DeterministicThumbnailPaths ==
  \A a \in Assets :
    thumb_runs[a] >= 1 =>
      thumb_files[a] = {get_thumbnail_path(storage_path(a), s) : s \in THUMBNAIL_SIZES}

(***************************************************************************)
(* Properties of extract_exif.                                             *)
(***************************************************************************)
\* C30: extract_exif returns for every file, also for one that neither
\* reader can open: the task is never re-queued and never marked failed,
\* and once it and generate_thumbnails have returned the join
\* process_extraction_results is applied.
C30_ExtractExifAlwaysReturns ==
  \A w \in Workflows :
    /\ retries[w]["extract_exif"] = 0
    /\ st[w]["extract_exif"] # "failure"
    /\ st[w]["extract_exif"] \in {"running", "success"}
         => ~extract_exif_result(exifread_outcome(wfAsset[w]),
                                 pillow_outcome(wfAsset[w])).raised
    /\ (st[w]["extract_exif"] = "success" /\ st[w]["generate_thumbnails"] = "success")
         => st[w]["process_extraction_results"] # "none"

\* Both readers failed on the file, extract_exif returned all the same and
\* the join has run.
C30_Witness ==
  \E w \in Workflows :
    /\ wfAsset[w] # NoAsset
    /\ exifread_outcome(wfAsset[w]) = "raises"
    /\ pillow_outcome(wfAsset[w]) = "raises"
    /\ st[w]["extract_exif"] = "success"
    /\ st[w]["process_extraction_results"] = "success"

(***************************************************************************)
(* Properties of non-maximum suppression.                                  *)
(***************************************************************************)
\* C31: what NMS returns holds no two boxes of one class whose IoU is above
\* the threshold; for faces all boxes are of one class, for objects the
\* class is the predicted class.
C31_NoOverlapAfterNms ==
  \A i, j \in 1 .. Len(nms_out.boxes) :
    (/\ i # j
     /\ nms_out.by = "objects" => nms_out.boxes[i].class_id = nms_out.boxes[j].class_id)
      => ~exceeds(calculate_iou(nms_out.boxes[i].box, nms_out.boxes[j].box),
                  IF nms_out.by = "faces" THEN face_nms_threshold
                  ELSE object_nms_threshold)

\* Three detections of one class went in: one was suppressed, two that
\* overlap by less than the threshold were kept.
C31_Witness ==
  /\ nms_out.by = "objects"
  /\ Len(nms_in) = 3
  /\ Len(nms_out.boxes) = 2
  /\ nms_out.boxes[1].class_id = nms_out.boxes[2].class_id
  /\ calculate_iou(nms_out.boxes[1].box, nms_out.boxes[2].box)[1] > 0

(***************************************************************************)
(* Properties of the join.                                                 *)
(***************************************************************************)
\* The extracted metadata holds a latitude and a longitude.
has_position(exif) == exif.latitude # None /\ exif.longitude # None

\* C32: once process_extraction_results has run for a submission,
\* reverse_geocode has been queued for it exactly if the extracted metadata
\* holds both a latitude and a longitude, whatever their values (0
\* included).
C32_GeocodeQueuedIffPosition ==
  \A w \in Workflows :
    st[w]["process_extraction_results"] = "success"
      => (geo[w].status # "none" <=> has_position(ExifMetadata(wfAsset[w])))

(***************************************************************************)
(* Properties of successive clustering runs.                               *)
(***************************************************************************)
\* Two Face rows of one owner show the same person: their embeddings lie
\* within eps of each other.
same_identity(f, g) ==
  /\ asset_owner(faces[f].asset_id) = asset_owner(faces[g].asset_id)
  /\ faces[f].embedding # None
  /\ faces[g].embedding # None
  /\ cosine_distance(faces[f].embedding[1], faces[g].embedding[1]) <= eps

\* C33: over successive clustering runs the faces of one identity are
\* gathered under one Person: a later batch whose faces belong with the
\* faces of an existing Person is assigned to that Person, no second Person
\* is created for them.
C33_OnePersonPerIdentity ==
  \A f, g \in DOMAIN faces :
    (/\ faces[f].person_id # NULL
     /\ faces[g].person_id # NULL
     /\ same_identity(f, g))
      => faces[f].person_id = faces[g].person_id

(***************************************************************************)
(* Properties of delete_person.                                            *)
(***************************************************************************)
\* The DELETE request served by session x commits in this step.
delete_committed(x) ==
  /\ sess[x].op = "delete_person"
  /\ sess[x].pc = "commit"
  /\ sess'[x].op = "idle"

\* C34: the commit of delete_person(P) removes the Person P, leaves no Face
\* with person_id = P, sets person_id of every Face of P to NULL and so
\* makes it a row of the next clustering SELECT, and changes no other
\* Face.
C34_DeletePostcondition ==
  [][\A x \in Sessions :
       delete_committed(x) =>
         LET P == sess[x].keep IN
         /\ P \notin DOMAIN people'
         /\ DOMAIN faces' = DOMAIN faces
         /\ \A f \in DOMAIN faces :
              /\ faces'[f].person_id # P
              /\ IF faces[f].person_id = P
                   THEN /\ faces'[f] = [faces[f] EXCEPT !.person_id = NULL]
                        /\ faces'[f].embedding # None
                   ELSE faces'[f] = faces[f]]_vars

\* A Person with faces was deleted while another Person keeps its faces:
\* no clustering run is pending, and two faces that were clustered are
\* unassigned again.
C34_Witness ==
  /\ quiescent
  /\ \A o \in Owners : clusterQ[o] = 0
  /\ \E p \in 1 .. next_person_id - 1 : p \notin DOMAIN people
  /\ \E q \in DOMAIN people : faces_of(q) # {}
  /\ \E f, g \in DOMAIN faces :
       /\ f # g
       /\ faces[f].person_id = NULL
       /\ faces[g].person_id = NULL
       /\ same_identity(f, g)

(***************************************************************************)
(* Properties of the fallback reader.                                      *)
(***************************************************************************)
\* C35: the record extract_exif returned holds width and height whenever
\* the Pillow reader can produce them for the file, also when the exifread
\* reader failed or returned tags without the dimensions.
C35_FallbackFillsSize ==
  \A w \in Workflows :
    (st[w]["extract_exif"] = "success" /\ pillow_outcome(wfAsset[w]) = "data")
      => extract_exif_result(exifread_outcome(wfAsset[w]),
                             pillow_outcome(wfAsset[w])).has_size

C37_CommitNeedsBothHeaders ==
  /\ \A w \in Workflows :
       /\ (asset_type(wfAsset[w]) = "image" /\ st[w]["update_asset_metadata"] # "none")
            => /\ st[w]["extract_exif"] = "success"
               /\ st[w]["generate_thumbnails"] = "success"
       /\ st[w]["generate_thumbnails"] = "failure"
            => /\ st[w]["process_extraction_results"] = "none"
               /\ st[w]["update_asset_metadata"] = "none"
  /\ \A a \in Library :
       (\A w \in Workflows :
          wfAsset[w] = a => st[w]["update_asset_metadata"] # "success")
         => assets[a] = NewAssetRow

\* generate_thumbnails of a submission failed after its retries while
\* extract_exif returned: the row of its asset is untouched, and another
\* submission has committed its asset.
C37_Witness ==
  \E v, w \in Workflows :
    /\ st[w]["generate_thumbnails"] = "failure"
    /\ retries[w]["generate_thumbnails"] = max_retries
    /\ st[w]["extract_exif"] = "success"
    /\ assets[wfAsset[w]] = NewAssetRow
    /\ st[v]["update_asset_metadata"] = "success"
    /\ assets[wfAsset[v]] # NewAssetRow

(***************************************************************************)
(* Properties of the Tag usage counters.                                   *)
(***************************************************************************)
\* C38: however the object and scene stages of different assets interleave,
\* every tag that has AssetTag rows has a Tag row (one per name and type),
\* and the usage_count of every Tag is the number of AssetTag rows for it.
C38_UsageCountMatchesRows ==
  /\ \A r \in asset_tags : r[2] \in DOMAIN tags
  /\ \A t \in DOMAIN tags :
       tags[t] = Cardinality({r \in asset_tags : r[2] = t})

(***************************************************************************)
(* Properties of a failing clustering run.                                 *)
(***************************************************************************)
\* C39: a cluster_faces run that ends before its session.commit(), by an
\* exception while it assigns or by the missing clustering library, leaves
\* the Face rows and the Person rows as they were.
C39_FailedRunHasNoEffect ==
  [][\A x \in Sessions :
       (sess[x].op = "cluster_faces" /\ cluster_result'[x] \in {"raised", "error"})
         => (faces' = faces /\ people' = people)]_vars

\* A run that had a cluster to assign raised, and no face has a person.
C39_Witness ==
  \E x \in Sessions :
    /\ cluster_result[x] = "raised"
    /\ sess[x].op = "idle"
    /\ DBSCAN(unassigned_faces("o1")) # {}
    /\ people = << >>
    /\ \A f \in DOMAIN faces : faces[f].person_id = NULL
====
